---------------------------- MODULE Spec2Model ----------------------------
(***************************************************************************)
(* A model of the ffldb transaction (database/ffldb/transaction.go): the   *)
(* snapshot-isolated transaction over the block-file store and the         *)
(* key/value cache, with the database handle's writer lock and close       *)
(* barrier.                                                                *)
(*                                                                         *)
(* The transaction's methods are translated from transaction.go.  Its      *)
(* collaborators (db.Begin, db.Close, the cache, the snapshot, the treaps, *)
(* the block-file store, the bucket and its cursor, the (de)serialisers)   *)
(* live in other files of the package; they are modelled from their        *)
(* contract and marked so in the model map.                                *)
(***************************************************************************)
EXTENDS Integers, Sequences, FiniteSets, TLC

(***************************************************************************)
(* Bounds of the model.                                                    *)
(***************************************************************************)
\* Transactions begun over one run of the database (one thread each).
MaxTx == 3
\* Transactions begun over one run of the model of the data (Spec).
MaxDataTx == 2
\* File numbers one transaction schedules for deletion before PruneBlocks is
\* no longer called on it.
MaxPendingDel == 2
\* Distinct block hashes.
NumHashes == 3
\* Distinct user keys of the metadata bucket.
NumKeys == 1
\* Distinct keys of the key-level model of one transaction.
NumKVKeys == 2
\* The block-file store's maxBlockFileSize, in bytes (scaled down).
MaxBlockFileSize == 2
\* Iterators a transaction can have open.
NumIters == 2

Tx == 1..MaxTx
Hashes == 1..NumHashes
UserKeys == 1..NumKeys
Iters == 1..NumIters

\* The nil byte slice: distinct from every byte string, the empty one included.
Nil == <<-1>>

\* The values user code puts: byte strings, the empty string among them.
Values == {<<>>, <<7>>, <<8>>}
\* The values put through the metadata bucket in the model of the database.
MetaValues == {<<7>>}

Min(S) == CHOOSE x \in S : \A y \in S : x <= y
Max(S) == CHOOSE x \in S : \A y \in S : y <= x

\* v, computed once, given to F.
With(v, F(_)) == F(v)

(***************************************************************************)
(* Keys.  A key of the key/value space is the 4-byte bucket id followed by *)
(* the key inside the bucket.                                              *)
(***************************************************************************)
metadataBucketID == <<0, 0, 0, 0>>
blockIdxBucketID == <<0, 0, 0, 1>>
writeLocKeyName == <<119>>

bucketizedKey(bucketID, key) == bucketID \o key

\* A block hash as the bytes of a key, and the key of a user key.
HashBytes(h) == <<200 + h>>
UserKeyBytes(k) == <<96 + k>>

MetaKey(k) == bucketizedKey(metadataBucketID, UserKeyBytes(k))
BlockIdxKey(h) == bucketizedKey(blockIdxBucketID, HashBytes(h))
WriteLocKey == bucketizedKey(metadataBucketID, writeLocKeyName)

(***************************************************************************)
(* 32-bit unsigned integers (the Offset and Len of a block region), kept   *)
(* as two 16-bit halves << high, low >> so that their sums wrap at 2^32    *)
(* as in the code.                                                         *)
(***************************************************************************)
Half == 2 ^ 16

\* uint32(n) for a length n.
U32(n) == << (n \div Half) % Half, n % Half >>
\* a + b in uint32 arithmetic.
Add32(a, b) == << (a[1] + b[1] + ((a[2] + b[2]) \div Half)) % Half, (a[2] + b[2]) % Half >>
\* a < b.
Less32(a, b) == a[1] < b[1] \/ (a[1] = b[1] /\ a[2] < b[2])

(***************************************************************************)
(* Serialisation: unsigned 32-bit integers, little endian.                 *)
(***************************************************************************)
LE32(n) == << n % 256, (n \div 256) % 256, (n \div 65536) % 256, (n \div 16777216) % 256 >>
UnLE32(b, at) == b[at] + 256 * b[at + 1] + 65536 * b[at + 2] + 16777216 * b[at + 3]

\* A block location is [blockFileNum, fileOffset, blockLen].
serializeBlockLoc(loc) == LE32(loc.blockFileNum) \o LE32(loc.fileOffset) \o LE32(loc.blockLen)
deserializeBlockLoc(row) ==
    IF Len(row) < 12
    THEN [err |-> "Corruption", loc |-> [blockFileNum |-> 0, fileOffset |-> 0, blockLen |-> 0]]
    ELSE [err |-> "nil",
          loc |-> [blockFileNum |-> UnLE32(row, 1), fileOffset |-> UnLE32(row, 5),
                   blockLen |-> UnLE32(row, 9)]]
\* serializeWriteRow, were it to write the offset in both fields.
serializeWriteRow_offsetTwice(curFileNum, curOffset) == LE32(curOffset) \o LE32(curOffset)

\* The write position is [curFileNum, curOffset].
serializeWriteRow(curFileNum, curOffset) == LE32(curFileNum) \o LE32(curOffset)

(***************************************************************************)
(* The treap: an ordered map from keys to values.  Put stores the empty    *)
(* slice for a nil value, so that a stored value is never nil.             *)
(***************************************************************************)
EmptyTreap == << >>
TreapHas(m, key) == key \in DOMAIN m
TreapGet(m, key) == IF key \in DOMAIN m THEN m[key] ELSE Nil
TreapPut(m, key, value) ==
    [x \in DOMAIN m \cup {key} |-> IF x = key THEN (IF value = Nil THEN <<>> ELSE value) ELSE m[x]]
TreapDelete(m, key) == [x \in DOMAIN m \ {key} |-> m[x]]

(***************************************************************************)
(* The block-file store: numbered append-only files and the write cursor.  *)
(* A store is [files, curFileNum, curOffset]; files maps the number of     *)
(* each file on disk to its bytes.                                         *)
(***************************************************************************)
InitStore == [files |-> << >>, curFileNum |-> 0, curOffset |-> 0]

FileBytes(st, n) == IF n \in DOMAIN st.files THEN st.files[n] ELSE << >>

\* writeBlock appends the payload at the write cursor, moving to the next
\* file first when the payload does not fit, and returns its location.
writeBlockLoc(st, bytes) ==
    IF st.curOffset + Len(bytes) > MaxBlockFileSize
    THEN [blockFileNum |-> st.curFileNum + 1, fileOffset |-> 0, blockLen |-> Len(bytes)]
    ELSE [blockFileNum |-> st.curFileNum, fileOffset |-> st.curOffset, blockLen |-> Len(bytes)]

writeBlock(st, bytes) ==
    LET loc == writeBlockLoc(st, bytes)
        n == loc.blockFileNum
        old == SubSeq(FileBytes(st, n), 1, loc.fileOffset)
    IN  [files |-> [x \in DOMAIN st.files \cup {n} |->
                        IF x = n THEN old \o bytes ELSE st.files[x]],
         curFileNum |-> n,
         curOffset |-> loc.fileOffset + Len(bytes)]

\* readBlock returns the payload at a location; a missing file or a short
\* read is an error.
readBlock(st, loc) ==
    IF loc.blockFileNum \notin DOMAIN st.files
    THEN [err |-> "DriverSpecific", bytes |-> Nil]
    ELSE IF loc.fileOffset + loc.blockLen > Len(st.files[loc.blockFileNum])
    THEN [err |-> "Corruption", bytes |-> Nil]
    ELSE [err |-> "nil",
          bytes |-> SubSeq(st.files[loc.blockFileNum], loc.fileOffset + 1,
                           loc.fileOffset + loc.blockLen)]

\* readBlockRegion returns length bytes at the offset inside the payload at a
\* location, without a checksum; a missing file or a read past the end of
\* the file is an error.
readBlockRegion(st, loc, offset, length) ==
    IF loc.blockFileNum \notin DOMAIN st.files
    THEN [err |-> "DriverSpecific", bytes |-> Nil]
    ELSE IF \/ offset[1] # 0 \/ length[1] # 0
            \/ loc.fileOffset + offset[2] + length[2] > Len(st.files[loc.blockFileNum])
    THEN [err |-> "DriverSpecific", bytes |-> Nil]
    ELSE [err |-> "nil",
          bytes |-> SubSeq(st.files[loc.blockFileNum], loc.fileOffset + offset[2] + 1,
                           loc.fileOffset + offset[2] + length[2])]

\* deleteFile unlinks one block file.
deleteFile(st, n) == [st EXCEPT !.files = [x \in DOMAIN st.files \ {n} |-> st.files[x]]]

\* handleRollback removes the files after the given one, truncates the given
\* file to the offset and sets the write cursor back.
handleRollback(st, oldBlkFileNum, oldBlkOffset) ==
    [files |-> [x \in {y \in DOMAIN st.files : y <= oldBlkFileNum} |->
                    IF x = oldBlkFileNum
                    THEN SubSeq(st.files[x], 1, oldBlkOffset)
                    ELSE st.files[x]],
     curFileNum |-> oldBlkFileNum,
     curOffset |-> oldBlkOffset]

\* scanBlockFiles reports the lowest and the highest file number on disk and
\* the size of the highest file; -1, -1, 0 for an empty directory.
scanBlockFiles(st) ==
    IF DOMAIN st.files = {}
    THEN [first |-> -1, last |-> -1, lastFileSize |-> 0]
    ELSE [first |-> Min(DOMAIN st.files), last |-> Max(DOMAIN st.files),
          lastFileSize |-> Len(st.files[Max(DOMAIN st.files)])]

(***************************************************************************)
(* The cache: the committed key/value state (its current root), of which a *)
(* snapshot is an immutable copy.                                          *)
(***************************************************************************)
InitRoot == EmptyTreap

NoSnapshot == [held |-> FALSE, root |-> EmptyTreap]
cacheSnapshot(root) == [held |-> TRUE, root |-> root]
snapshotHas(snap, key) == TreapHas(snap.root, key)
snapshotGet(snap, key) == TreapGet(snap.root, key)

RECURSIVE ApplyRemoves(_, _)
ApplyRemoves(root, keys) ==
    IF keys = {} THEN root
    ELSE LET k == CHOOSE x \in keys : TRUE
         IN  ApplyRemoves(TreapDelete(root, k), keys \ {k})

RECURSIVE ApplyPuts(_, _, _)
ApplyPuts(root, m, keys) ==
    IF keys = {} THEN root
    ELSE LET k == CHOOSE x \in keys : TRUE
         IN  ApplyPuts(TreapPut(root, k, m[k]), m, keys \ {k})

\* commitTx merges the pending removals and the pending keys into the root.
commitTx(root, T) ==
    ApplyPuts(ApplyRemoves(root, DOMAIN T.pendingRemove), T.pendingKeys, DOMAIN T.pendingKeys)

(***************************************************************************)
(* The transaction.  A transaction is a record of the fields of the struct *)
(* and of its position: phase is "none" before Begin is called, "begin"    *)
(* while Begin holds the close barrier and waits for the writer lock,      *)
(* "live" once Begin has returned it, "panicked" once a call on it has.    *)
(***************************************************************************)
NoTx ==
    [phase |-> "none", managed |-> FALSE, closed |-> FALSE, writable |-> FALSE,
     snapshot |-> NoSnapshot,
     pendingBlocks |-> << >>, pendingBlockData |-> << >>,
     pendingDelFileNums |-> << >>,
     pendingKeys |-> EmptyTreap, pendingRemove |-> EmptyTreap,
     activeIters |-> << >>, reseek |-> {},
     mdbRoTx |-> FALSE, mdbRwTx |-> FALSE]

\* initMDBX_txs opens the paired backend transaction.
initMDBX_txs(T) == [T EXCEPT !.mdbRwTx = T.writable, !.mdbRoTx = ~T.writable]

\* removeActiveIter: the indexing loop over the slice, which does not look
\* again at the index it has just filled from the right.
RECURSIVE removeLoop(_, _, _)
removeLoop(iters, i, iter) ==
    IF i > Len(iters) THEN iters
    ELSE IF iters[i] = iter
    THEN removeLoop(SubSeq(iters, 1, i - 1) \o SubSeq(iters, i + 1, Len(iters)), i + 1, iter)
    ELSE removeLoop(iters, i + 1, iter)

removeActiveIter(T, iter) == [T EXCEPT !.activeIters = removeLoop(T.activeIters, 1, iter)]

addActiveIter(T, iter) == [T EXCEPT !.activeIters = Append(T.activeIters, iter)]

\* notifyActiveIters, were it to stop after the first iterator.
notifyActiveIters_firstOnly(T) ==
    [T EXCEPT !.reseek = T.reseek \cup {T.activeIters[i] : i \in 1..Min({1, Len(T.activeIters)})}]

\* notifyActiveIters forces every registered iterator to re-seek.
notifyActiveIters(T) ==
    [T EXCEPT !.reseek = T.reseek \cup {T.activeIters[i] : i \in 1..Len(T.activeIters)}]

checkClosed(T) == IF T.closed THEN "TxClosed" ELSE "nil"

hasKey(T, key) ==
    IF T.writable /\ TreapHas(T.pendingRemove, key) THEN FALSE
    ELSE IF T.writable /\ TreapHas(T.pendingKeys, key) THEN TRUE
    ELSE snapshotHas(T.snapshot, key)

\* putKey, were it to leave the key in pendingRemove.
putKey_keepsRemove(T, key, value) ==
    notifyActiveIters([T EXCEPT !.pendingKeys = TreapPut(T.pendingKeys, key, value)])

putKey(T, key, value) ==
    notifyActiveIters(
        [T EXCEPT !.pendingRemove = TreapDelete(T.pendingRemove, key),
                  !.pendingKeys = TreapPut(T.pendingKeys, key, value)])

\* fetchKey, were it to take an empty pending value for a missing one.
fetchKey_emptyIsMissing(T, key) ==
    IF T.writable /\ TreapHas(T.pendingRemove, key) THEN Nil
    ELSE IF T.writable /\ TreapGet(T.pendingKeys, key) # Nil
                      /\ Len(TreapGet(T.pendingKeys, key)) > 0
    THEN TreapGet(T.pendingKeys, key)
    ELSE snapshotGet(T.snapshot, key)

fetchKey(T, key) ==
    IF T.writable /\ TreapHas(T.pendingRemove, key) THEN Nil
    ELSE IF T.writable /\ TreapGet(T.pendingKeys, key) # Nil THEN TreapGet(T.pendingKeys, key)
    ELSE snapshotGet(T.snapshot, key)

\* deleteKey, were it to only drop a key that is pending.
deleteKey_dropsPending(T, key, notifyIterators) ==
    LET T1 == IF TreapHas(T.pendingKeys, key)
              THEN [T EXCEPT !.pendingKeys = TreapDelete(T.pendingKeys, key)]
              ELSE [T EXCEPT !.pendingRemove = TreapPut(T.pendingRemove, key, Nil)]
    IN  IF notifyIterators THEN notifyActiveIters(T1) ELSE T1

deleteKey(T, key, notifyIterators) ==
    LET T1 == [T EXCEPT !.pendingKeys = TreapDelete(T.pendingKeys, key),
                        !.pendingRemove = TreapPut(T.pendingRemove, key, Nil)]
    IN  IF notifyIterators THEN notifyActiveIters(T1) ELSE T1

\* Bucket.Get and Bucket.Put of the two fixed buckets.
bucketGet(T, bucketID, key) == fetchKey(T, bucketizedKey(bucketID, key))
bucketPut(T, bucketID, key, value) ==
    IF checkClosed(T) # "nil" THEN [err |-> checkClosed(T), tx |-> T]
    ELSE IF ~T.writable THEN [err |-> "TxNotWritable", tx |-> T]
    ELSE IF Len(key) = 0 THEN [err |-> "KeyRequired", tx |-> T]
    ELSE [err |-> "nil", tx |-> putKey(T, bucketizedKey(bucketID, key), value)]

bucketDelete(T, bucketID, key) ==
    IF checkClosed(T) # "nil" THEN [err |-> checkClosed(T), tx |-> T]
    ELSE IF ~T.writable THEN [err |-> "TxNotWritable", tx |-> T]
    ELSE IF Len(key) = 0 THEN [err |-> "nil", tx |-> T]
    ELSE [err |-> "nil", tx |-> deleteKey(T, bucketizedKey(bucketID, key), TRUE)]

\* hasBlock, were it to look in the block index only.
hasBlock_indexOnly(T, hash) ==
    hasKey(T, bucketizedKey(blockIdxBucketID, HashBytes(hash)))

hasBlock(T, hash) ==
    IF hash \in DOMAIN T.pendingBlocks THEN TRUE
    ELSE hasKey(T, bucketizedKey(blockIdxBucketID, HashBytes(hash)))

\* StoreBlock returns the error and the transaction afterwards.
\* StoreBlock recording the index of the new block counted from one.
StoreBlock_indexFromOne(T, hash, bytes) ==
    IF checkClosed(T) # "nil" THEN [err |-> checkClosed(T), tx |-> T]
    ELSE IF ~T.writable THEN [err |-> "TxNotWritable", tx |-> T]
    ELSE IF hasBlock(T, hash) THEN [err |-> "BlockExists", tx |-> T]
    ELSE [err |-> "nil",
          tx |-> [T EXCEPT
                    !.pendingBlocks = [x \in DOMAIN T.pendingBlocks \cup {hash} |->
                                          IF x = hash THEN Len(T.pendingBlockData) + 1
                                          ELSE T.pendingBlocks[x]],
                    !.pendingBlockData = Append(T.pendingBlockData,
                                  [hash |-> hash, bytes |-> bytes, height |-> hash])]]

StoreBlock(T, hash, bytes) ==
    IF checkClosed(T) # "nil" THEN [err |-> checkClosed(T), tx |-> T]
    ELSE IF ~T.writable THEN [err |-> "TxNotWritable", tx |-> T]
    ELSE IF hasBlock(T, hash) THEN [err |-> "BlockExists", tx |-> T]
    ELSE [err |-> "nil",
          tx |-> [T EXCEPT
                    !.pendingBlocks = [x \in DOMAIN T.pendingBlocks \cup {hash} |->
                                          IF x = hash THEN Len(T.pendingBlockData)
                                          ELSE T.pendingBlocks[x]],
                    !.pendingBlockData = Append(T.pendingBlockData,
                                  [hash |-> hash, bytes |-> bytes, height |-> hash])]]

HasBlock(T, hash) ==
    IF checkClosed(T) # "nil" THEN [err |-> checkClosed(T), has |-> FALSE]
    ELSE [err |-> "nil", has |-> hasBlock(T, hash)]

fetchBlockRow(T, hash) ==
    LET blockRow == bucketGet(T, blockIdxBucketID, HashBytes(hash))
    IN  IF blockRow = Nil THEN [err |-> "BlockNotFound", row |-> Nil]
        ELSE [err |-> "nil", row |-> blockRow]

\* FetchBlock, were it to read the block files only.
FetchBlock_filesOnly(T, st, hash) ==
    IF checkClosed(T) # "nil" THEN [err |-> checkClosed(T), bytes |-> Nil]
    ELSE With(fetchBlockRow(T, hash), LAMBDA r :
         With(deserializeBlockLoc(r.row), LAMBDA d :
            IF r.err # "nil" THEN [err |-> r.err, bytes |-> Nil]
            ELSE IF d.err # "nil" THEN [err |-> d.err, bytes |-> Nil]
            ELSE readBlock(st, d.loc)))

\* FetchBlock reads the pending block, or else the block files of the store.
FetchBlock(T, st, hash) ==
    IF checkClosed(T) # "nil" THEN [err |-> checkClosed(T), bytes |-> Nil]
    ELSE IF hash \in DOMAIN T.pendingBlocks
    THEN [err |-> "nil", bytes |-> T.pendingBlockData[T.pendingBlocks[hash] + 1].bytes]
    ELSE With(fetchBlockRow(T, hash), LAMBDA r :
         With(deserializeBlockLoc(r.row), LAMBDA d :
            IF r.err # "nil" THEN [err |-> r.err, bytes |-> Nil]
            ELSE IF d.err # "nil" THEN [err |-> d.err, bytes |-> Nil]
            ELSE readBlock(st, d.loc)))

(***************************************************************************)
(* Block regions.  A region is [hash, offset, len] with offset and len     *)
(* 32-bit unsigned.  The results carry, next to the error and the bytes,   *)
(* the locations read from the block files, in the order of the reads.     *)
(***************************************************************************)
\* The region of a pending block; Nil bytes and no error when the block is
\* not pending.
fetchPendingRegion(T, region) ==
    IF region.hash \notin DOMAIN T.pendingBlocks THEN [err |-> "nil", bytes |-> Nil]
    ELSE With(T.pendingBlockData[T.pendingBlocks[region.hash] + 1].bytes,
           LAMBDA blockBytes :
         With(Add32(region.offset, region.len), LAMBDA endOffset :
           IF Less32(endOffset, region.offset) \/ Less32(U32(Len(blockBytes)), endOffset)
           THEN [err |-> "BlockRegionInvalid", bytes |-> Nil]
           ELSE [err |-> "nil",
                 bytes |-> SubSeq(blockBytes, region.offset[2] + 1, endOffset[2])]))

\* FetchBlockRegion without the test for the wrap of offset + len.
FetchBlockRegion_noWrapCheck(T, st, region) ==
    IF checkClosed(T) # "nil" THEN [err |-> checkClosed(T), bytes |-> Nil, reads |-> << >>]
    ELSE With(fetchPendingRegion(T, region), LAMBDA p :
      IF p.err # "nil" THEN [err |-> p.err, bytes |-> Nil, reads |-> << >>]
      ELSE IF p.bytes # Nil THEN [err |-> "nil", bytes |-> p.bytes, reads |-> << >>]
      ELSE With(fetchBlockRow(T, region.hash), LAMBDA row :
        IF row.err # "nil" THEN [err |-> row.err, bytes |-> Nil, reads |-> << >>]
        ELSE With(deserializeBlockLoc(row.row), LAMBDA d :
          IF d.err # "nil" THEN [err |-> "BlockRegionInvalid", bytes |-> Nil, reads |-> << >>]
          ELSE IF Less32(U32(d.loc.blockLen), Add32(region.offset, region.len))
          THEN [err |-> "BlockRegionInvalid", bytes |-> Nil, reads |-> << >>]
          ELSE With(readBlockRegion(st, d.loc, region.offset, region.len), LAMBDA r :
                 [err |-> r.err, bytes |-> r.bytes, reads |-> << d.loc >>]))))

FetchBlockRegion(T, st, region) ==
    IF checkClosed(T) # "nil" THEN [err |-> checkClosed(T), bytes |-> Nil, reads |-> << >>]
    ELSE With(fetchPendingRegion(T, region), LAMBDA p :
      IF p.err # "nil" THEN [err |-> p.err, bytes |-> Nil, reads |-> << >>]
      ELSE IF p.bytes # Nil THEN [err |-> "nil", bytes |-> p.bytes, reads |-> << >>]
      ELSE With(fetchBlockRow(T, region.hash), LAMBDA row :
        IF row.err # "nil" THEN [err |-> row.err, bytes |-> Nil, reads |-> << >>]
        ELSE With(deserializeBlockLoc(row.row), LAMBDA d :
          IF d.err # "nil" THEN [err |-> "BlockRegionInvalid", bytes |-> Nil, reads |-> << >>]
          ELSE IF \/ Less32(Add32(region.offset, region.len), region.offset)
                  \/ Less32(U32(d.loc.blockLen), Add32(region.offset, region.len))
          THEN [err |-> "BlockRegionInvalid", bytes |-> Nil, reads |-> << >>]
          ELSE With(readBlockRegion(st, d.loc, region.offset, region.len), LAMBDA r :
                 [err |-> r.err, bytes |-> r.bytes, reads |-> << d.loc >>]))))

\* bulkFetchDataSorter.Less: by file number, then by offset in the file.
Less(a, b) ==
    IF a.blockLocation.blockFileNum < b.blockLocation.blockFileNum THEN TRUE
    ELSE IF a.blockLocation.blockFileNum > b.blockLocation.blockFileNum THEN FALSE
    ELSE a.blockLocation.fileOffset < b.blockLocation.fileOffset

\* sort.Sort of the fetch list under Less (entries that compare equal are
\* entries of one block and carry the same location).
RECURSIVE sortInsert(_, _)
sortInsert(q, e) ==
    IF q = << >> THEN << e >>
    ELSE IF Less(e, q[Len(q)])
    THEN Append(sortInsert(SubSeq(q, 1, Len(q) - 1), e), q[Len(q)])
    ELSE Append(q, e)

\* The fetch list, were it left in the order of the regions.
sortFetchList_asListed(q) == q

RECURSIVE sortFetchList(_)
sortFetchList(q) ==
    IF q = << >> THEN << >>
    ELSE sortInsert(sortFetchList(SubSeq(q, 1, Len(q) - 1)), q[Len(q)])

\* The first loop of FetchBlockRegions from region i on: pending regions are
\* answered in place, the others are bounds-checked and put on the fetch
\* list with their position (counted from one here) as replyIndex.
RECURSIVE resolveLoop(_, _, _, _, _)
resolveLoop(T, regions, i, blockRegions, fetchList) ==
    IF i > Len(regions)
    THEN [err |-> "nil", blockRegions |-> blockRegions, fetchList |-> fetchList]
    ELSE With(fetchPendingRegion(T, regions[i]), LAMBDA p :
      IF p.err # "nil"
      THEN [err |-> p.err, blockRegions |-> blockRegions, fetchList |-> fetchList]
      ELSE IF p.bytes # Nil
      THEN resolveLoop(T, regions, i + 1, [blockRegions EXCEPT ![i] = p.bytes], fetchList)
      ELSE With(fetchBlockRow(T, regions[i].hash), LAMBDA row :
        IF row.err # "nil"
        THEN [err |-> row.err, blockRegions |-> blockRegions, fetchList |-> fetchList]
        ELSE With(deserializeBlockLoc(row.row), LAMBDA d :
          IF d.err # "nil"
          THEN [err |-> d.err, blockRegions |-> blockRegions, fetchList |-> fetchList]
          ELSE IF \/ Less32(Add32(regions[i].offset, regions[i].len), regions[i].offset)
                  \/ Less32(U32(d.loc.blockLen), Add32(regions[i].offset, regions[i].len))
          THEN [err |-> "BlockRegionInvalid", blockRegions |-> blockRegions,
                fetchList |-> fetchList]
          ELSE resolveLoop(T, regions, i + 1, blockRegions,
                           Append(fetchList, [blockLocation |-> d.loc, replyIndex |-> i])))))

\* The second loop, were it to place the i-th read in the i-th of the
\* positions that are read from the block files.
RECURSIVE readLoop_inReadOrder(_, _, _, _, _, _)
readLoop_inReadOrder(st, regions, fetchList, i, blockRegions, reads) ==
    IF i > Len(fetchList) THEN [err |-> "nil", blocks |-> blockRegions, reads |-> reads]
    ELSE With(readBlockRegion(st, fetchList[i].blockLocation,
                              regions[fetchList[i].replyIndex].offset,
                              regions[fetchList[i].replyIndex].len), LAMBDA r :
      IF r.err # "nil"
      THEN [err |-> r.err, blocks |-> Nil, reads |-> Append(reads, fetchList[i].blockLocation)]
      ELSE readLoop_inReadOrder(st, regions, fetchList, i + 1,
              [blockRegions EXCEPT
                 ![CHOOSE x \in {fetchList[k].replyIndex : k \in 1..Len(fetchList)} :
                     Cardinality({y \in {fetchList[k].replyIndex : k \in 1..Len(fetchList)} :
                                     y < x}) = i - 1] = r.bytes],
              Append(reads, fetchList[i].blockLocation)))

\* The second loop of FetchBlockRegions from entry i of the sorted fetch
\* list on: each read is placed at its replyIndex.
RECURSIVE readLoop(_, _, _, _, _, _)
readLoop(st, regions, fetchList, i, blockRegions, reads) ==
    IF i > Len(fetchList) THEN [err |-> "nil", blocks |-> blockRegions, reads |-> reads]
    ELSE With(readBlockRegion(st, fetchList[i].blockLocation,
                              regions[fetchList[i].replyIndex].offset,
                              regions[fetchList[i].replyIndex].len), LAMBDA r :
      IF r.err # "nil"
      THEN [err |-> r.err, blocks |-> Nil, reads |-> Append(reads, fetchList[i].blockLocation)]
      ELSE readLoop(st, regions, fetchList, i + 1,
                    [blockRegions EXCEPT ![fetchList[i].replyIndex] = r.bytes],
                    Append(reads, fetchList[i].blockLocation)))

FetchBlockRegions(T, st, regions) ==
    IF checkClosed(T) # "nil" THEN [err |-> checkClosed(T), blocks |-> Nil, reads |-> << >>]
    ELSE With(resolveLoop(T, regions, 1, [i \in 1..Len(regions) |-> Nil], << >>), LAMBDA a :
      IF a.err # "nil" THEN [err |-> a.err, blocks |-> Nil, reads |-> << >>]
      ELSE readLoop(st, regions, sortFetchList(a.fetchList), 1, a.blockRegions, << >>))

\* HasBlocks: hasBlock for every hash of the list.
HasBlocks(T, hashes) ==
    IF checkClosed(T) # "nil" THEN [err |-> checkClosed(T), results |-> Nil]
    ELSE [err |-> "nil", results |-> [i \in 1..Len(hashes) |-> hasBlock(T, hashes[i])]]

\* FetchBlocks: FetchBlock for every hash of the list, up to the first error.
FetchBlocks(T, st, hashes) ==
    IF checkClosed(T) # "nil" THEN [err |-> checkClosed(T), blocks |-> Nil]
    ELSE IF \E i \in 1..Len(hashes) : FetchBlock(T, st, hashes[i]).err # "nil"
    THEN [err |-> FetchBlock(T, st, hashes[Min({i \in 1..Len(hashes) :
                        FetchBlock(T, st, hashes[i]).err # "nil"})]).err,
          blocks |-> Nil]
    ELSE [err |-> "nil",
          blocks |-> [i \in 1..Len(hashes) |-> FetchBlock(T, st, hashes[i]).bytes]]

\* The size of a block header, to the scale of the blocks of the model.
blockHdrSize == U32(1)

FetchBlockHeader(T, st, hash) ==
    FetchBlockRegion(T, st, [hash |-> hash, offset |-> U32(0), len |-> blockHdrSize])

FetchBlockHeaders(T, st, hashes) ==
    FetchBlockRegions(T, st, [i \in 1..Len(hashes) |->
                                [hash |-> hashes[i], offset |-> U32(0), len |-> blockHdrSize]])

(***************************************************************************)
(* close, given the transaction and the database handle's locks, which are *)
(* [writeLock, closeReaders, closePending, closed]; returns both.          *)
(***************************************************************************)
closeMdbTxs(T) == [T EXCEPT !.mdbRoTx = FALSE, !.mdbRwTx = FALSE]

\* close, were it to unlock the writer lock for every transaction.
close_unlockAlways(T, d) ==
    [tx |-> [closeMdbTxs(T) EXCEPT
                !.closed = TRUE,
                !.pendingBlocks = << >>, !.pendingBlockData = << >>,
                !.pendingDelFileNums = << >>,
                !.pendingKeys = EmptyTreap, !.pendingRemove = EmptyTreap,
                !.snapshot = NoSnapshot],
     db |-> [d EXCEPT !.closeReaders = d.closeReaders - 1, !.writeLock = FALSE]]

\* close, were it to leave the close barrier twice.
close_unlockTwice(T, d) ==
    [tx |-> [closeMdbTxs(T) EXCEPT
                !.closed = TRUE,
                !.pendingBlocks = << >>, !.pendingBlockData = << >>,
                !.pendingDelFileNums = << >>,
                !.pendingKeys = EmptyTreap, !.pendingRemove = EmptyTreap,
                !.snapshot = NoSnapshot],
     db |-> [d EXCEPT !.closeReaders = IF d.closeReaders > 1 THEN d.closeReaders - 2 ELSE 0,
                      !.writeLock = IF T.writable THEN FALSE ELSE d.writeLock]]

close(T, d) ==
    [tx |-> [closeMdbTxs(T) EXCEPT
                !.closed = TRUE,
                !.pendingBlocks = << >>, !.pendingBlockData = << >>,
                !.pendingDelFileNums = << >>,
                !.pendingKeys = EmptyTreap, !.pendingRemove = EmptyTreap,
                !.snapshot = NoSnapshot],
     db |-> [d EXCEPT !.closeReaders = d.closeReaders - 1,
                      !.writeLock = IF T.writable THEN FALSE ELSE d.writeLock]]

(***************************************************************************)
(* writePendingAndCommit.  fail names the step that fails in this call, if *)
(* one does: [step |-> "none" | "delete" | "write" | "cache" | "mdb", at]. *)
(***************************************************************************)
NoFail == [step |-> "none", at |-> 0]

\* A call made by writePendingAndCommit, as its steps list it in the order
\* they are made: "deleteFile", "writeBlock", "Put" (of a block's location),
\* "PutWriteLoc", "commitTx" and "handleRollback", with its arguments and the
\* error it returned.
Step(call, args, err) == [call |-> call, args |-> args, err |-> err]

\* The loop over the pending file deletions, from the i-th on.  Unlinking a
\* file that is not on disk fails.
RECURSIVE deleteLoop(_, _, _, _)
deleteLoop(st, nums, i, fail) ==
    IF i > Len(nums) THEN [err |-> "nil", store |-> st, steps |-> << >>]
    ELSE IF (fail.step = "delete" /\ fail.at = i) \/ nums[i] \notin DOMAIN st.files
    THEN [err |-> "DriverSpecific", store |-> st,
          steps |-> << Step("deleteFile", << nums[i] >>, "DriverSpecific") >>]
    ELSE With(deleteLoop(deleteFile(st, nums[i]), nums, i + 1, fail), LAMBDA rest :
            [rest EXCEPT !.steps = << Step("deleteFile", << nums[i] >>, "nil") >> \o @])

\* The loop over the pending blocks, from the i-th on: oldBlkFileNum and
\* oldBlkOffset are the write position saved for the rollback.
RECURSIVE writeLoop(_, _, _, _, _, _)
writeLoop(T, st, i, fail, oldBlkFileNum, oldBlkOffset) ==
    IF i > Len(T.pendingBlockData)
    THEN [err |-> "nil", tx |-> T, store |-> st, steps |-> << >>]
    ELSE IF fail.step = "write" /\ fail.at = i
    THEN [err |-> "DriverSpecific", tx |-> T,
          store |-> handleRollback(st, oldBlkFileNum, oldBlkOffset),
          steps |-> << Step("writeBlock", << T.pendingBlockData[i].hash >>, "DriverSpecific"),
                       Step("handleRollback", << oldBlkFileNum, oldBlkOffset >>, "nil") >>]
    ELSE With(T.pendingBlockData[i], LAMBDA blockData :
         With(writeBlockLoc(st, blockData.bytes), LAMBDA location :
         With(writeBlock(st, blockData.bytes), LAMBDA st1 :
         With(bucketPut(T, blockIdxBucketID, HashBytes(blockData.hash),
                        serializeBlockLoc(location)), LAMBDA put :
            IF put.err # "nil"
            THEN [err |-> put.err, tx |-> T,
                  store |-> handleRollback(st1, oldBlkFileNum, oldBlkOffset),
                  steps |-> << Step("writeBlock", << blockData.hash >>, "nil"),
                               Step("Put", << blockData.hash >>, put.err),
                               Step("handleRollback", << oldBlkFileNum, oldBlkOffset >>, "nil") >>]
            ELSE With(writeLoop(put.tx, st1, i + 1, fail, oldBlkFileNum, oldBlkOffset),
                      LAMBDA rest :
                    [rest EXCEPT !.steps = << Step("writeBlock", << blockData.hash >>, "nil"),
                                              Step("Put", << blockData.hash >>, "nil") >> \o @])))))

\* writePendingAndCommit, were it to write the blocks before it deletes the
\* files.
writePendingAndCommit_writesFirst(T, st, root, fail) ==
    With(st.curFileNum, LAMBDA oldBlkFileNum :
    With(st.curOffset, LAMBDA oldBlkOffset :
    With(writeLoop(T, st, 1, fail, oldBlkFileNum, oldBlkOffset), LAMBDA wr :
    IF wr.err # "nil"
    THEN [err |-> wr.err, tx |-> wr.tx, store |-> wr.store, root |-> root,
          steps |-> wr.steps]
    ELSE
    With(deleteLoop(wr.store, T.pendingDelFileNums, 1, fail), LAMBDA del :
    IF del.err # "nil"
    THEN [err |-> del.err, tx |-> T, store |-> del.store, root |-> root,
          steps |-> wr.steps \o del.steps]
    ELSE
    With(serializeWriteRow(del.store.curFileNum, del.store.curOffset), LAMBDA writeRow :
    With(bucketPut(wr.tx, metadataBucketID, writeLocKeyName, writeRow), LAMBDA put :
    IF fail.step = "cache"
    THEN [err |-> "DriverSpecific", tx |-> put.tx, store |-> del.store, root |-> root,
          steps |-> wr.steps \o del.steps \o
                    << Step("PutWriteLoc", << >>, "nil"),
                       Step("commitTx", << >>, "DriverSpecific") >>]
    ELSE [err |-> "nil", tx |-> put.tx, store |-> del.store,
          root |-> commitTx(root, put.tx),
          steps |-> wr.steps \o del.steps \o
                    << Step("PutWriteLoc", << >>, "nil"), Step("commitTx", << >>, "nil") >>]))))))

writePendingAndCommit(T, st, root, fail) ==
    With(deleteLoop(st, T.pendingDelFileNums, 1, fail), LAMBDA del :
    IF del.err # "nil"
    THEN [err |-> del.err, tx |-> T, store |-> del.store, root |-> root,
          steps |-> del.steps]
    ELSE
    With(del.store.curFileNum, LAMBDA oldBlkFileNum :
    With(del.store.curOffset, LAMBDA oldBlkOffset :
    With(writeLoop(T, del.store, 1, fail, oldBlkFileNum, oldBlkOffset), LAMBDA wr :
    IF wr.err # "nil"
    THEN [err |-> wr.err, tx |-> wr.tx, store |-> wr.store, root |-> root,
          steps |-> del.steps \o wr.steps]
    ELSE
    With(serializeWriteRow(wr.store.curFileNum, wr.store.curOffset), LAMBDA writeRow :
    With(bucketPut(wr.tx, metadataBucketID, writeLocKeyName, writeRow), LAMBDA put :
    IF put.err # "nil"
    THEN [err |-> put.err, tx |-> wr.tx,
          store |-> handleRollback(wr.store, oldBlkFileNum, oldBlkOffset), root |-> root,
          steps |-> del.steps \o wr.steps \o
                    << Step("PutWriteLoc", << >>, put.err),
                       Step("handleRollback", << oldBlkFileNum, oldBlkOffset >>, "nil") >>]
    ELSE IF fail.step = "cache"
    THEN [err |-> "DriverSpecific", tx |-> put.tx, store |-> wr.store, root |-> root,
          steps |-> del.steps \o wr.steps \o
                    << Step("PutWriteLoc", << >>, "nil"),
                       Step("commitTx", << >>, "DriverSpecific") >>]
    ELSE [err |-> "nil", tx |-> put.tx, store |-> wr.store,
          root |-> commitTx(root, put.tx),
          steps |-> del.steps \o wr.steps \o
                    << Step("PutWriteLoc", << >>, "nil"), Step("commitTx", << >>, "nil") >>]))))))

(***************************************************************************)
(* PruneBlocks returns the error, the deleted hashes and the transaction.  *)
(***************************************************************************)
\* The file selection, were it to stop only when the remaining size is
\* below the target.
RECURSIVE pruneFiles_strict(_, _, _, _)
pruneFiles_strict(i, last, totalSize, targetSize) ==
    IF ~(i < last) THEN << >>
    ELSE IF totalSize - MaxBlockFileSize < targetSize THEN << i >>
    ELSE << i >> \o pruneFiles_strict(i + 1, last, totalSize - MaxBlockFileSize, targetSize)

\* The file selection, were it to go on through the last file whatever the
\* remaining size.
RECURSIVE pruneFiles_throughLast(_, _, _, _)
pruneFiles_throughLast(i, last, totalSize, targetSize) ==
    IF i > last THEN << >>
    ELSE << i >> \o pruneFiles_throughLast(i + 1, last, totalSize - MaxBlockFileSize,
                                           targetSize)

\* The files chosen for deletion, from file i on, in order.
RECURSIVE pruneFiles(_, _, _, _)
pruneFiles(i, last, totalSize, targetSize) ==
    IF ~(i < last) THEN << >>
    ELSE IF totalSize - MaxBlockFileSize <= targetSize THEN << i >>
    ELSE << i >> \o pruneFiles(i + 1, last, totalSize - MaxBlockFileSize, targetSize)

SeqRange(q) == {q[i] : i \in 1..Len(q)}

\* The walk of the block index, were it to report the entries of the
\* deleted files without deleting them.
RECURSIVE pruneIndex_keepsEntries(_, _, _, _)
pruneIndex_keepsEntries(T, h, deletedFiles, deletedBlockHashes) ==
    IF h > NumHashes THEN [err |-> "nil", hashes |-> deletedBlockHashes, tx |-> T]
    ELSE LET key == bucketizedKey(blockIdxBucketID, HashBytes(h))
             d == deserializeBlockLoc(fetchKey(T, key))
         IN  IF ~hasKey(T, key)
             THEN pruneIndex_keepsEntries(T, h + 1, deletedFiles, deletedBlockHashes)
             ELSE IF d.err # "nil" THEN [err |-> d.err, hashes |-> << >>, tx |-> T]
             ELSE IF d.loc.blockFileNum \in deletedFiles
             THEN pruneIndex_keepsEntries(T, h + 1, deletedFiles,
                                          Append(deletedBlockHashes, h))
             ELSE pruneIndex_keepsEntries(T, h + 1, deletedFiles, deletedBlockHashes)

\* The walk of the block index cursor, over the hashes from h on in key
\* order: every entry located in one of the deleted files is deleted through
\* the cursor, which does not notify the iterators.
RECURSIVE pruneIndex(_, _, _, _)
pruneIndex(T, h, deletedFiles, deletedBlockHashes) ==
    IF h > NumHashes THEN [err |-> "nil", hashes |-> deletedBlockHashes, tx |-> T]
    ELSE LET key == bucketizedKey(blockIdxBucketID, HashBytes(h))
             d == deserializeBlockLoc(fetchKey(T, key))
         IN  IF ~hasKey(T, key)
             THEN pruneIndex(T, h + 1, deletedFiles, deletedBlockHashes)
             ELSE IF d.err # "nil" THEN [err |-> d.err, hashes |-> << >>, tx |-> T]
             ELSE IF d.loc.blockFileNum \in deletedFiles
             THEN pruneIndex(deleteKey(T, key, FALSE), h + 1, deletedFiles,
                             Append(deletedBlockHashes, h))
             ELSE pruneIndex(T, h + 1, deletedFiles, deletedBlockHashes)

PruneBlocks(T, st, targetSize) ==
    LET scan == scanBlockFiles(st)
        maxSizeFileCount == scan.last - scan.first
        totalSize == scan.lastFileSize + MaxBlockFileSize * maxSizeFileCount
        chosen == pruneFiles(scan.first, scan.last, totalSize, targetSize)
        T1 == [T EXCEPT !.pendingDelFileNums = T.pendingDelFileNums \o chosen]
    IN  IF checkClosed(T) # "nil" THEN [err |-> checkClosed(T), hashes |-> << >>, tx |-> T]
        ELSE IF ~T.writable THEN [err |-> "TxNotWritable", hashes |-> << >>, tx |-> T]
        ELSE IF targetSize < MaxBlockFileSize
        THEN [err |-> "TargetTooSmall", hashes |-> << >>, tx |-> T]
        ELSE IF scan.first = scan.last THEN [err |-> "nil", hashes |-> << >>, tx |-> T]
        ELSE IF totalSize <= targetSize THEN [err |-> "nil", hashes |-> << >>, tx |-> T]
        ELSE pruneIndex(T1, 1, SeqRange(chosen), << >>)

\* BeenPruned, were the first file number its only test.
BeenPruned_firstOnly(T, st) ==
    LET scan == scanBlockFiles(st)
    IN  [err |-> "nil", pruned |-> scan.first # 0]

\* BeenPruned scans the directory and tests neither closed nor writable.
BeenPruned(T, st) ==
    LET scan == scanBlockFiles(st)
    IN  [err |-> "nil", pruned |-> scan.first # 0 /\ scan.first # scan.last]

(***************************************************************************)
(* Commit and Rollback return the error (or "panic") and the transaction,  *)
(* the locks, the store and the cache root afterwards.                     *)
(***************************************************************************)
\* Commit, were it to panic on a managed transaction without closing it.
Commit_panicsOpen(T, d, st, root, fail) ==
    With(close(T, d), LAMBDA c :
    IF T.managed
    THEN [err |-> "panic", tx |-> T, db |-> d, store |-> st, root |-> root,
          steps |-> << >>]
    ELSE IF checkClosed(T) # "nil"
    THEN [err |-> checkClosed(T), tx |-> T, db |-> d, store |-> st, root |-> root,
          steps |-> << >>]
    ELSE IF ~T.writable
    THEN [err |-> "TxNotWritable", tx |-> c.tx, db |-> c.db, store |-> st, root |-> root,
          steps |-> << >>]
    ELSE
    With(writePendingAndCommit(T, st, root, fail), LAMBDA w :
    IF w.err # "nil"
    THEN [err |-> w.err, tx |-> c.tx, db |-> c.db, store |-> w.store, root |-> w.root,
          steps |-> w.steps]
    ELSE IF T.mdbRwTx /\ fail.step = "mdb"
    THEN [err |-> "DriverSpecific", tx |-> c.tx, db |-> c.db,
          store |-> w.store, root |-> w.root,
          steps |-> w.steps]
    ELSE [err |-> "nil", tx |-> c.tx, db |-> c.db, store |-> w.store, root |-> w.root,
          steps |-> w.steps]))

\* Commit, were it to close the transaction only when it succeeds.
Commit_closeOnSuccess(T, d, st, root, fail) ==
    With(close(T, d), LAMBDA c :
    IF T.managed
    THEN [err |-> "panic", tx |-> c.tx, db |-> c.db, store |-> st, root |-> root,
          steps |-> << >>]
    ELSE IF checkClosed(T) # "nil"
    THEN [err |-> checkClosed(T), tx |-> T, db |-> d, store |-> st, root |-> root,
          steps |-> << >>]
    ELSE IF ~T.writable
    THEN [err |-> "TxNotWritable", tx |-> T, db |-> d, store |-> st, root |-> root,
          steps |-> << >>]
    ELSE
    With(writePendingAndCommit(T, st, root, fail), LAMBDA w :
    IF w.err # "nil"
    THEN [err |-> w.err, tx |-> T, db |-> d, store |-> w.store, root |-> w.root,
          steps |-> w.steps]
    ELSE IF T.mdbRwTx /\ fail.step = "mdb"
    THEN [err |-> "DriverSpecific", tx |-> T, db |-> d, store |-> w.store, root |-> w.root,
          steps |-> w.steps]
    ELSE [err |-> "nil", tx |-> c.tx, db |-> c.db, store |-> w.store, root |-> w.root,
          steps |-> w.steps]))

Commit(T, d, st, root, fail) ==
    With(close(T, d), LAMBDA c :
    IF T.managed
    THEN [err |-> "panic", tx |-> c.tx, db |-> c.db, store |-> st, root |-> root,
          steps |-> << >>]
    ELSE IF checkClosed(T) # "nil"
    THEN [err |-> checkClosed(T), tx |-> T, db |-> d, store |-> st, root |-> root,
          steps |-> << >>]
    ELSE IF ~T.writable
    THEN [err |-> "TxNotWritable", tx |-> c.tx, db |-> c.db, store |-> st, root |-> root,
          steps |-> << >>]
    ELSE
    With(writePendingAndCommit(T, st, root, fail), LAMBDA w :
    IF w.err # "nil"
    THEN [err |-> w.err, tx |-> c.tx, db |-> c.db, store |-> w.store, root |-> w.root,
          steps |-> w.steps]
    ELSE IF T.mdbRwTx /\ fail.step = "mdb"
    THEN [err |-> "DriverSpecific", tx |-> c.tx, db |-> c.db,
          store |-> w.store, root |-> w.root,
          steps |-> w.steps]
    ELSE [err |-> "nil", tx |-> c.tx, db |-> c.db, store |-> w.store, root |-> w.root,
          steps |-> w.steps]))

\* Rollback, were it to write the pending data before it closes.
Rollback_writes(T, d, st, root) ==
    With(close(T, d), LAMBDA c :
    With(writePendingAndCommit(T, st, root, NoFail), LAMBDA w :
    IF T.managed
    THEN [err |-> "panic", tx |-> c.tx, db |-> c.db, store |-> st, root |-> root]
    ELSE IF checkClosed(T) # "nil"
    THEN [err |-> checkClosed(T), tx |-> T, db |-> d, store |-> st, root |-> root]
    ELSE IF ~T.writable
    THEN [err |-> "nil", tx |-> c.tx, db |-> c.db, store |-> st, root |-> root]
    ELSE [err |-> "nil", tx |-> c.tx, db |-> c.db, store |-> w.store, root |-> w.root]))

Rollback(T, d, st, root) ==
    With(close(T, d), LAMBDA c :
    IF T.managed
    THEN [err |-> "panic", tx |-> c.tx, db |-> c.db, store |-> st, root |-> root]
    ELSE IF checkClosed(T) # "nil"
    THEN [err |-> checkClosed(T), tx |-> T, db |-> d, store |-> st, root |-> root]
    ELSE [err |-> "nil", tx |-> c.tx, db |-> c.db, store |-> st, root |-> root])

(***************************************************************************)
(* The state of the database.                                              *)
(***************************************************************************)
VARIABLES
    tx,     \* the transactions, by number
    db,     \* the handle's locks: writeLock, closeReaders, closePending, closed
    store,  \* the block-file store
    root,   \* the cache's current root
    ret,    \* the last call and what it returned: [op, tx, err]
    gh,     \* history, per transaction: what it was given and how it ended
    ref,    \* history: what the commits that returned nil have committed
    hist    \* history: the last two key-level calls (SpecKV)

vars == << tx, db, store, root, ret, gh, ref, hist >>

InitDb == [writeLock |-> FALSE, closeReaders |-> 0, closePending |-> FALSE, closed |-> FALSE]

Returned(op, t, err) == ret' = [op |-> op, tx |-> t, err |-> err]

IsOpen(T) == T.phase = "live" /\ ~T.closed

(***************************************************************************)
(* What a transaction observes: every key through fetchKey and hasKey,     *)
(* every block through HasBlock and FetchBlock.                            *)
(***************************************************************************)
View(T, st) ==
    [key |-> [k \in UserKeys |-> fetchKey(T, MetaKey(k))],
     has |-> [k \in UserKeys |-> hasKey(T, MetaKey(k))],
     hasBlock |-> [h \in Hashes |-> HasBlock(T, h).has],
     block |-> [h \in Hashes |-> FetchBlock(T, st, h).bytes]]

\* The same of the reference state: the keys and blocks committed so far.
RefView(r) ==
    [key |-> r.kv,
     has |-> [k \in UserKeys |-> r.kv[k] # Nil],
     hasBlock |-> [h \in Hashes |-> r.blocks[h] # Nil],
     block |-> r.blocks]

NoGhost ==
    [waited |-> FALSE, expect |-> << >>, beginView |-> << >>,
     beginStore |-> InitStore, beginRoot |-> InitRoot, seen |-> {},
     stored |-> {}, pruned |-> {}, scheduled |-> FALSE,
     kv |-> [k \in UserKeys |-> << "none" >>], end |-> "none", steps |-> << >>]

\* The blocks of a transaction with the file each is appended to by a Commit
\* that starts at store st.
RECURSIVE placed(_, _, _)
placed(st, data, i) ==
    IF i > Len(data) THEN {}
    ELSE {[hash |-> data[i].hash, bytes |-> data[i].bytes,
           file |-> writeBlockLoc(st, data[i].bytes).blockFileNum]}
            \cup placed(writeBlock(st, data[i].bytes), data, i + 1)

\* The reference state after the commit of the transaction with history g,
\* whose blocks were placed as in p.
RefCommit(r, g, p) ==
    [kv |-> [k \in UserKeys |->
                IF g.kv[k][1] = "put" THEN g.kv[k][2]
                ELSE IF g.kv[k][1] = "del" THEN Nil
                ELSE r.kv[k]],
     blocks |-> [h \in Hashes |->
                IF \E e \in g.stored : e.hash = h
                THEN (CHOOSE e \in g.stored : e.hash = h).bytes
                ELSE IF h \in g.pruned THEN Nil
                ELSE r.blocks[h]],
     durable |-> r.durable \cup p]

(***************************************************************************)
(* The initial states: the empty database, and a database to which an      *)
(* earlier transaction has committed two blocks, one in each of two files. *)
(***************************************************************************)
EmptyRef == [kv |-> [k \in UserKeys |-> Nil], blocks |-> [h \in Hashes |-> Nil], durable |-> {}]

FirstTx == initMDBX_txs([NoTx EXCEPT !.phase = "live", !.writable = TRUE,
                                     !.snapshot = cacheSnapshot(InitRoot)])
LoadedTx == StoreBlock(StoreBlock(FirstTx, 1, <<6, 9>>).tx, 2, <<5>>).tx
Loaded == writePendingAndCommit(LoadedTx, InitStore, InitRoot, NoFail)
LoadedRef ==
    [kv |-> [k \in UserKeys |-> Nil],
     blocks |-> [h \in Hashes |-> IF h = 1 THEN <<6, 9>> ELSE IF h = 2 THEN <<5>> ELSE Nil],
     durable |-> placed(InitStore, LoadedTx.pendingBlockData, 1)]

InitCommon ==
    /\ tx = [t \in Tx |-> NoTx]
    /\ db = InitDb
    /\ ret = [op |-> "none", tx |-> 0, err |-> "nil"]
    /\ gh = [t \in Tx |-> NoGhost]
    /\ hist = << >>

InitEmpty == InitCommon /\ store = InitStore /\ root = InitRoot /\ ref = EmptyRef
InitLoaded == InitCommon /\ store = Loaded.store /\ root = Loaded.root /\ ref = LoadedRef

Init == InitEmpty \/ InitLoaded

\* The target sizes PruneBlocks is called with.
TargetSizes == {MaxBlockFileSize - 1, MaxBlockFileSize, 2 * MaxBlockFileSize}

\* The steps of a Commit that can fail.
FailChoices(T) ==
    {NoFail, [step |-> "cache", at |-> 0], [step |-> "mdb", at |-> 0]}
        \cup {[step |-> "delete", at |-> i] : i \in 1..Len(T.pendingDelFileNums)}
        \cup {[step |-> "write", at |-> i] : i \in 1..Len(T.pendingBlockData)}

(***************************************************************************)
(* db.Begin: takes the close barrier shared, then the writer lock when     *)
(* writable, then a snapshot of the cache and the backend transaction.     *)
(* Transactions are begun in the order of their numbers.                   *)
(***************************************************************************)
BeginCall(t, writable, managed) ==
    /\ tx[t].phase = "none"
    /\ \A u \in Tx : u < t => tx[u].phase # "none"
    /\ ~db.closePending /\ ~db.closed
    /\ tx' = [tx EXCEPT ![t] = [NoTx EXCEPT !.phase = "begin", !.writable = writable,
                                            !.managed = managed]]
    /\ db' = [db EXCEPT !.closeReaders = db.closeReaders + 1]
    /\ gh' = [gh EXCEPT ![t].waited = writable /\ db.writeLock]
    /\ Returned("BeginCall", t, "nil")
    /\ UNCHANGED << store, root, ref, hist >>

BeginReturn(t) ==
    /\ tx[t].phase = "begin"
    /\ tx[t].writable => ~db.writeLock
    /\ \E T \in {initMDBX_txs([tx[t] EXCEPT !.phase = "live",
                                            !.snapshot = cacheSnapshot(root)])} :
        /\ tx' = [tx EXCEPT ![t] = T]
        /\ gh' = [gh EXCEPT ![t] = [@ EXCEPT !.expect = RefView(ref),
                                             !.beginView = View(T, store),
                                             !.beginStore = store, !.beginRoot = root,
                                             !.seen = ref.durable, !.end = "open"]]
    /\ db' = [db EXCEPT !.writeLock = db.writeLock \/ tx[t].writable]
    /\ Returned("Begin", t, "nil")
    /\ UNCHANGED << store, root, ref, hist >>

\* View and Update clear the managed flag when the user's function returns,
\* before they call Rollback or Commit themselves.
ManagedReturn(t) ==
    /\ tx[t].phase = "live" /\ tx[t].managed
    /\ tx' = [tx EXCEPT ![t].managed = FALSE]
    /\ Returned("ManagedReturn", t, "nil")
    /\ UNCHANGED << db, store, root, gh, ref, hist >>

(***************************************************************************)
(* The calls on a transaction that Begin has returned.  A panic unwinds    *)
(* the calling thread: it makes no further call on the transaction.        *)
(***************************************************************************)
CallStoreBlock(t, hash, bytes) ==
    /\ tx[t].phase = "live"
    /\ \E r \in {StoreBlock(tx[t], hash, bytes)} :
           /\ tx' = [tx EXCEPT ![t] = r.tx]
           /\ gh' = IF r.err = "nil"
                    THEN [gh EXCEPT ![t].stored =
                            {e \in @ : e.hash # hash} \cup {[hash |-> hash, bytes |-> bytes]}]
                    ELSE gh
           /\ Returned("StoreBlock", t, r.err)
    /\ UNCHANGED << db, store, root, ref, hist >>

CallPut(t, k, value) ==
    /\ tx[t].phase = "live"
    /\ \E r \in {bucketPut(tx[t], metadataBucketID, UserKeyBytes(k), value)} :
           /\ tx' = [tx EXCEPT ![t] = r.tx]
           /\ gh' = IF r.err = "nil" THEN [gh EXCEPT ![t].kv[k] = << "put", value >>] ELSE gh
           /\ Returned("Put", t, r.err)
    /\ UNCHANGED << db, store, root, ref, hist >>

CallDelete(t, k) ==
    /\ tx[t].phase = "live"
    /\ \E r \in {bucketDelete(tx[t], metadataBucketID, UserKeyBytes(k))} :
           /\ tx' = [tx EXCEPT ![t] = r.tx]
           /\ gh' = IF r.err = "nil" THEN [gh EXCEPT ![t].kv[k] = << "del" >>] ELSE gh
           /\ Returned("Delete", t, r.err)
    /\ UNCHANGED << db, store, root, ref, hist >>

CallPruneBlocks(t, targetSize) ==
    /\ tx[t].phase = "live"
    /\ Len(tx[t].pendingDelFileNums) < MaxPendingDel
    /\ \E r \in {PruneBlocks(tx[t], store, targetSize)} :
           /\ tx' = [tx EXCEPT ![t] = r.tx]
           /\ gh' = IF r.err = "nil"
                    THEN [gh EXCEPT ![t].pruned = @ \cup SeqRange(r.hashes),
                                    ![t].stored = {e \in @ : e.hash \notin SeqRange(r.hashes)},
                                    ![t].scheduled = @ \/ r.tx.pendingDelFileNums # << >>]
                    ELSE gh
           /\ Returned("PruneBlocks", t, r.err)
    /\ UNCHANGED << db, store, root, ref, hist >>

CallCommit(t, fail) ==
    /\ tx[t].phase = "live"
    /\ \E r \in {Commit(tx[t], db, store, root, fail)} :
           /\ tx' = [tx EXCEPT ![t] = IF r.err = "panic"
                                       THEN [r.tx EXCEPT !.phase = "panicked"]
                                       ELSE r.tx]
           /\ db' = r.db
           /\ store' = r.store
           /\ root' = r.root
           /\ gh' = IF r.err = "TxClosed" THEN gh
                    ELSE [gh EXCEPT ![t].end = IF r.err = "nil" THEN "committed"
                                               ELSE IF r.err = "panic" THEN "panicked"
                                               ELSE "failed",
                                    ![t].steps = r.steps]
           /\ ref' = IF r.err = "nil"
                     THEN RefCommit(ref, gh[t], placed(store, tx[t].pendingBlockData, 1))
                     ELSE ref
           /\ Returned("Commit", t, r.err)
    /\ UNCHANGED hist

CallRollback(t) ==
    /\ tx[t].phase = "live"
    /\ \E r \in {Rollback(tx[t], db, store, root)} :
           /\ tx' = [tx EXCEPT ![t] = IF r.err = "panic"
                                       THEN [r.tx EXCEPT !.phase = "panicked"]
                                       ELSE r.tx]
           /\ db' = r.db
           /\ gh' = IF r.err = "TxClosed" THEN gh
                    ELSE [gh EXCEPT ![t].end = IF r.err = "nil" THEN "rolledback"
                                               ELSE "panicked"]
           /\ store' = r.store
           /\ root' = r.root
           /\ Returned("Rollback", t, r.err)
    /\ UNCHANGED << ref, hist >>

(***************************************************************************)
(* db.Close: takes the close barrier exclusive, which waits for the        *)
(* readers to leave and keeps new ones out meanwhile.                      *)
(***************************************************************************)
CloseCall ==
    /\ ~db.closePending /\ ~db.closed
    /\ db' = [db EXCEPT !.closePending = TRUE]
    /\ Returned("CloseCall", 0, "nil")
    /\ UNCHANGED << tx, store, root, gh, ref, hist >>

CloseReturn ==
    /\ db.closePending
    /\ db.closeReaders = 0
    /\ db' = [db EXCEPT !.closePending = FALSE, !.closed = TRUE]
    /\ Returned("Close", 0, "nil")
    /\ UNCHANGED << tx, store, root, gh, ref, hist >>

(***************************************************************************)
(* Spec: the data of up to MaxDataTx transactions, some of them            *)
(* concurrent: blocks, keys, pruning, and commits that succeed or fail at  *)
(* any step.                                                               *)
(***************************************************************************)
DataTx == 1..MaxDataTx

OpenWritable(t) == IsOpen(tx[t]) /\ tx[t].writable

\* A block's hash is the hash of its bytes: each hash has one payload. The
\* first fills a block file, the second half of one.
BlockBytes(hash) == IF hash % 2 = 1 THEN <<6, 9>> ELSE <<5>>

Next ==
    \/ \E t \in DataTx, writable \in BOOLEAN : BeginCall(t, writable, FALSE)
    \/ \E t \in DataTx : BeginReturn(t)
    \/ \E t \in DataTx, hash \in Hashes :
            OpenWritable(t) /\ CallStoreBlock(t, hash, BlockBytes(hash))
    \/ \E t \in DataTx, k \in UserKeys, value \in MetaValues :
            OpenWritable(t) /\ CallPut(t, k, value)
    \/ \E t \in DataTx, k \in UserKeys : OpenWritable(t) /\ CallDelete(t, k)
    \/ \E t \in DataTx, targetSize \in TargetSizes :
            OpenWritable(t) /\ CallPruneBlocks(t, targetSize)
    \/ \E t \in DataTx : \E fail \in FailChoices(tx[t]) : IsOpen(tx[t]) /\ CallCommit(t, fail)
    \/ \E t \in DataTx : IsOpen(tx[t]) /\ CallRollback(t)

Spec == Init /\ [][Next]_vars

(***************************************************************************)
(* SpecLock: the locks of up to MaxTx transactions, managed or not, and    *)
(* db.Close.  The transactions carry no data: their commits succeed, or    *)
(* fail in the cache or in the backend.                                    *)
(***************************************************************************)
NextLock ==
    \/ \E t \in Tx, writable \in BOOLEAN, managed \in BOOLEAN : BeginCall(t, writable, managed)
    \/ \E t \in Tx : BeginReturn(t)
    \/ \E t \in Tx : ManagedReturn(t)
    \/ \E t \in Tx : \E fail \in FailChoices(tx[t]) : IsOpen(tx[t]) /\ CallCommit(t, fail)
    \/ \E t \in Tx : IsOpen(tx[t]) /\ CallRollback(t)
    \/ CloseCall
    \/ CloseReturn

SpecLock == InitEmpty /\ [][NextLock]_vars

(***************************************************************************)
(* SpecLockFair: SpecLock under the scheduling the code relies on.  The    *)
(* writer lock is a sync.Mutex, which hands the lock to a waiter that has  *)
(* waited long (strong fairness of a Begin that waits for it); the owner   *)
(* of an open transaction ends it with Commit or Rollback (weak fairness). *)
(***************************************************************************)
EndTx(t) ==
    /\ IsOpen(tx[t])
    /\ \/ CallRollback(t)
       \/ \E fail \in FailChoices(tx[t]) : CallCommit(t, fail)

SpecLockFair ==
    /\ SpecLock
    /\ \A t \in Tx : SF_vars(BeginReturn(t))
    /\ \A t \in Tx : WF_vars(EndTx(t))

(***************************************************************************)
(* The claims on the locks.                                                *)
(***************************************************************************)
OpenWriters == {t \in Tx : IsOpen(tx[t]) /\ tx[t].writable}

\* The transactions that hold the close barrier: from the call of Begin to
\* close.
BarrierHolders == {t \in Tx : tx[t].phase \in {"begin", "live"} /\ ~tx[t].closed}

C2_SnapshotIsolation ==
    \A t \in Tx :
        (IsOpen(tx[t]) /\ ~tx[t].writable) => View(tx[t], store) = gh[t].beginView

\* The hashes among the entries of a set of stored blocks.
HashesOf(blocks) == {e.hash : e \in blocks}

\* C5, as stated: a block stored in a transaction is there, with its bytes,
\* in that transaction before the commit, and the blocks of every commit that
\* has succeeded are there, with their bytes, in every transaction begun
\* afterwards.
C5_StoreFetchAlways ==
    \A t \in Tx : IsOpen(tx[t]) =>
        /\ \A e \in gh[t].stored :
            /\ HasBlock(tx[t], e.hash) = [err |-> "nil", has |-> TRUE]
            /\ FetchBlock(tx[t], store, e.hash) = [err |-> "nil", bytes |-> e.bytes]
        /\ \A e \in gh[t].seen :
                /\ HasBlock(tx[t], e.hash) = [err |-> "nil", has |-> TRUE]
                /\ FetchBlock(tx[t], store, e.hash) = [err |-> "nil", bytes |-> e.bytes]

\* C5, amended: the same, for the committed blocks that the transaction has
\* not pruned itself and whose block file no commit has deleted.
C5_StoreFetch ==
    \A t \in Tx : IsOpen(tx[t]) =>
        /\ \A e \in gh[t].stored :
            /\ HasBlock(tx[t], e.hash) = [err |-> "nil", has |-> TRUE]
            /\ FetchBlock(tx[t], store, e.hash) = [err |-> "nil", bytes |-> e.bytes]
        /\ \A e \in gh[t].seen :
            (e.hash \notin gh[t].pruned /\ e.file \in DOMAIN store.files) =>
                /\ HasBlock(tx[t], e.hash) = [err |-> "nil", has |-> TRUE]
                /\ FetchBlock(tx[t], store, e.hash) = [err |-> "nil", bytes |-> e.bytes]

\* A transaction has a block pending and, begun after the commit of another
\* one, reads a block which that one had stored.
C5_Witness ==
    \E t, u \in Tx :
        /\ IsOpen(tx[t]) /\ gh[t].stored # {}
        /\ gh[u].end = "committed"
        /\ \E e \in gh[t].seen :
            /\ e.hash \in HashesOf(gh[u].stored) /\ e.hash \notin gh[t].pruned
            /\ e.file \in DOMAIN store.files
            /\ FetchBlock(tx[t], store, e.hash).bytes = e.bytes

\* C6: StoreBlock of a hash that is pending in the transaction or in the
\* block index it sees returns BlockExists and leaves pendingBlocks and
\* pendingBlockData as they are; no hash is twice in pendingBlockData.
C6_BlockExists ==
    \A t \in Tx : OpenWritable(t) =>
        /\ \A h \in Hashes :
            (\/ \E i \in 1..Len(tx[t].pendingBlockData) : tx[t].pendingBlockData[i].hash = h
             \/ hasKey(tx[t], BlockIdxKey(h))) =>
                StoreBlock(tx[t], h, BlockBytes(h)) = [err |-> "BlockExists", tx |-> tx[t]]
        /\ \A i, j \in 1..Len(tx[t].pendingBlockData) :
            tx[t].pendingBlockData[i].hash = tx[t].pendingBlockData[j].hash => i = j

\* StoreBlock has returned BlockExists to a transaction with a pending block.
C6_Witness ==
    /\ ret.op = "StoreBlock" /\ ret.err = "BlockExists"
    /\ tx[ret.tx].pendingBlockData # << >>

\* The hashes stored in no transaction but t, and in no database the run
\* began with.
OnlyIn(t) ==
    {h \in HashesOf(gh[t].stored) :
        /\ \A u \in Tx \ {t} : h \notin HashesOf(gh[u].stored)
        /\ h \notin HashesOf(LoadedRef.durable)}

\* C7: Rollback discards everything pending.  When it returns, the block
\* files, the write cursor and the cache are as when the transaction began,
\* and a block stored in that transaction only is in no other transaction.
C7_RollbackDiscards ==
    /\ \A t \in Tx :
        (ret.op = "Rollback" /\ ret.tx = t /\ ret.err = "nil" /\ tx[t].writable) =>
            store = gh[t].beginStore /\ root = gh[t].beginRoot
    /\ \A t \in Tx : gh[t].end = "rolledback" =>
        \A u \in Tx \ {t}, h \in OnlyIn(t) :
            IsOpen(tx[u]) => HasBlock(tx[u], h) = [err |-> "nil", has |-> FALSE]

\* A transaction that had stored a block no other has stored, put or deleted
\* a key and scheduled a file deletion has been rolled back, and a later
\* transaction is open.
C7_Witness ==
    \E t, u \in Tx :
        /\ t < u /\ IsOpen(tx[u])
        /\ gh[t].end = "rolledback" /\ OnlyIn(t) # {} /\ gh[t].scheduled
        /\ \E k \in UserKeys : gh[t].kv[k] # << "none" >>


(***************************************************************************)
(* C11: in every transaction and after any sequence of StoreBlock calls,   *)
(* accepted or rejected, pendingBlocks and pendingBlockData agree: every   *)
(* hash of pendingBlocks maps to an index inside pendingBlockData whose    *)
(* entry carries that hash, and every entry of pendingBlockData is the     *)
(* entry of exactly one hash.  Indexes are counted from zero as in the     *)
(* code, sequences from one.                                               *)
(***************************************************************************)
C11_PendingBlocksIndex ==
    \A t \in Tx :
        /\ \A h \in DOMAIN tx[t].pendingBlocks :
              /\ tx[t].pendingBlocks[h] \in 0 .. Len(tx[t].pendingBlockData) - 1
              /\ tx[t].pendingBlockData[tx[t].pendingBlocks[h] + 1].hash = h
        /\ \A i \in 1 .. Len(tx[t].pendingBlockData) :
              Cardinality({h \in DOMAIN tx[t].pendingBlocks :
                              tx[t].pendingBlocks[h] = i - 1}) = 1

\* A transaction holding two pending blocks has just had a StoreBlock rejected.
C11_Witness ==
    /\ ret.op = "StoreBlock" /\ ret.err = "BlockExists"
    /\ ret.tx \in Tx
    /\ Len(tx[ret.tx].pendingBlockData) >= 2

(***************************************************************************)
(* C14: the last block file, the one with the highest number, to which the *)
(* write cursor appends, is never among the pendingDelFileNums of a        *)
(* transaction, and no step, a Commit in particular, removes it: whatever  *)
(* the target sizes and the PruneBlocks, StoreBlock and Commit calls.      *)
(***************************************************************************)
C14_LastFileKept ==
    [][/\ \A t \in Tx : \A n \in SeqRange(tx'[t].pendingDelFileNums) :
              /\ n < scanBlockFiles(store').last
              /\ n # store'.curFileNum
       /\ DOMAIN store.files # {} =>
              /\ scanBlockFiles(store).last \in DOMAIN store'.files
              /\ store'.curFileNum >= scanBlockFiles(store).last]_vars

\* A Commit has deleted every block file but the last one of three.
C14_Witness ==
    /\ ret.op = "Commit" /\ ret.err = "nil"
    /\ gh[ret.tx].scheduled
    /\ DOMAIN store.files = {2}
    /\ store.curFileNum = 2

\* C16, as stated: a block that PruneBlocks has returned is absent (HasBlock
\* false, FetchBlock BlockNotFound) in the same transaction from then on.
C16_PrunedGone ==
    \A t \in Tx : IsOpen(tx[t]) =>
        \A h \in gh[t].pruned :
            /\ HasBlock(tx[t], h) = [err |-> "nil", has |-> FALSE]
            /\ FetchBlock(tx[t], store, h).err = "BlockNotFound"

\* The hashes with an entry in the block index that T sees, located in one
\* of the files.
IndexedIn(T, files) ==
    {h \in Hashes :
        /\ hasKey(T, BlockIdxKey(h))
        /\ deserializeBlockLoc(fetchKey(T, BlockIdxKey(h))).loc.blockFileNum \in files}

\* A block is absent in an open transaction whose snapshot has no index
\* entry for it and which has not stored it.
AbsentStaysAbsent ==
    \A u \in Tx : IsOpen(tx[u]) =>
        \A h \in Hashes :
            (/\ ~snapshotHas(cacheSnapshot(gh[u].beginRoot), BlockIdxKey(h))
             /\ h \notin HashesOf(gh[u].stored)) =>
                /\ HasBlock(tx[u], h) = [err |-> "nil", has |-> FALSE]
                /\ FetchBlock(tx[u], store, h).err = "BlockNotFound"

(***************************************************************************)
(* C16, amended: the hashes PruneBlocks returns are the entries of the     *)
(* block index, as the transaction sees it, located in one of the files    *)
(* chosen by this call.  Each is removed through the pending overlay:      *)
(* HasBlock is false and FetchBlock returns BlockNotFound for it in the    *)
(* same transaction and, once the Commit has succeeded, in the committed   *)
(* index and so in the later transactions, until the block is stored       *)
(* again.  The entries of the other files stay as they are.                *)
(***************************************************************************)
C16_PruneIndex ==
    [][/\ (ret'.op = "PruneBlocks" /\ ret'.err = "nil") =>
            \A t \in {ret'.tx} :
            \A returned \in {gh'[t].pruned \ gh[t].pruned} :
                /\ returned =
                     IndexedIn(tx[t],
                        {tx'[t].pendingDelFileNums[i] :
                            i \in (Len(tx[t].pendingDelFileNums) + 1) ..
                                  Len(tx'[t].pendingDelFileNums)})
                /\ \A h \in returned :
                     /\ HasBlock(tx'[t], h) = [err |-> "nil", has |-> FALSE]
                     /\ FetchBlock(tx'[t], store', h).err = "BlockNotFound"
                /\ \A h \in Hashes \ returned :
                     /\ hasKey(tx'[t], BlockIdxKey(h)) = hasKey(tx[t], BlockIdxKey(h))
                     /\ fetchKey(tx'[t], BlockIdxKey(h)) = fetchKey(tx[t], BlockIdxKey(h))
       /\ \A t \in Tx :
            \A h \in gh[t].pruned \ HashesOf(gh[t].stored) :
                /\ IsOpen(tx[t]) =>
                     /\ HasBlock(tx[t], h) = [err |-> "nil", has |-> FALSE]
                     /\ FetchBlock(tx[t], store, h).err = "BlockNotFound"
                /\ (IsOpen(tx[t]) /\ ret'.op = "Commit" /\ ret'.tx = t /\ ret'.err = "nil") =>
                     ~snapshotHas(cacheSnapshot(root'), BlockIdxKey(h))
       /\ AbsentStaysAbsent']_vars

\* A transaction that pruned a block has committed; a later transaction,
\* open, does not see that block and sees a block of another file.
C16_Witness ==
    \E t, u \in Tx :
        /\ gh[t].end = "committed" /\ IsOpen(tx[u])
        /\ \E h \in gh[t].pruned \ HashesOf(gh[t].stored) :
              /\ ~snapshotHas(cacheSnapshot(gh[u].beginRoot), BlockIdxKey(h))
              /\ HasBlock(tx[u], h) = [err |-> "nil", has |-> FALSE]
        /\ \E h \in HashesOf(LoadedRef.durable) \ gh[t].pruned :
              FetchBlock(tx[u], store, h).err = "nil"

(***************************************************************************)
(* C17: pruning is atomic to the readers.  A transaction open while a      *)
(* pruning Commit runs sees the index entries and the block files of       *)
(* before, or neither: HasBlock is never true for a committed block whose  *)
(* block file has been deleted.                                            *)
(***************************************************************************)
C17_PruneAtomic ==
    \A t \in Tx : IsOpen(tx[t]) =>
        \A h \in Hashes \ DOMAIN tx[t].pendingBlocks :
            HasBlock(tx[t], h).has =>
                /\ deserializeBlockLoc(fetchBlockRow(tx[t], h).row).loc.blockFileNum
                        \in DOMAIN store.files
                /\ FetchBlock(tx[t], store, h).err = "nil"

(***************************************************************************)
(* C20: once a transaction is closed, every call of a public method on it  *)
(* (HasBlock, HasBlocks, StoreBlock, FetchBlock, FetchBlocks,              *)
(* FetchBlockHeader, FetchBlockHeaders, FetchBlockRegion,                  *)
(* FetchBlockRegions, PruneBlocks, BeenPruned, Commit, Rollback) fails     *)
(* with TxClosed and changes no state.                                     *)
(***************************************************************************)
C20_ClosedFails ==
    \A t \in Tx : (tx[t].phase = "live" /\ tx[t].closed) =>
        /\ \A h \in Hashes :
            /\ HasBlock(tx[t], h).err = "TxClosed"
            /\ HasBlocks(tx[t], << h >>).err = "TxClosed"
            /\ StoreBlock(tx[t], h, BlockBytes(h)) = [err |-> "TxClosed", tx |-> tx[t]]
            /\ FetchBlock(tx[t], store, h).err = "TxClosed"
            /\ FetchBlocks(tx[t], store, << h >>).err = "TxClosed"
            /\ FetchBlockHeader(tx[t], store, h).err = "TxClosed"
            /\ FetchBlockHeaders(tx[t], store, << h >>).err = "TxClosed"
        /\ \A region \in [hash : Hashes, offset : {U32(0), U32(1)}, len : {U32(1)}] :
            /\ FetchBlockRegion(tx[t], store, region).err = "TxClosed"
            /\ FetchBlockRegion(tx[t], store, region).reads = << >>
            /\ FetchBlockRegions(tx[t], store, << region >>).err = "TxClosed"
        /\ \A targetSize \in TargetSizes :
            PruneBlocks(tx[t], store, targetSize) =
                [err |-> "TxClosed", hashes |-> << >>, tx |-> tx[t]]
        /\ BeenPruned(tx[t], store).err = "TxClosed"
        /\ Commit(tx[t], db, store, root, NoFail) =
                [err |-> "TxClosed", tx |-> tx[t], db |-> db, store |-> store, root |-> root,
                 steps |-> << >>]
        /\ Rollback(tx[t], db, store, root) =
                [err |-> "TxClosed", tx |-> tx[t], db |-> db, store |-> store, root |-> root]

(***************************************************************************)
(* C21: on an open read-only transaction StoreBlock, PruneBlocks and       *)
(* Commit return TxNotWritable and have no effect: the transaction stays   *)
(* open, with its snapshot and its locks, and the pending sets, the block  *)
(* files, the write cursor and the cache are as before.                    *)
(***************************************************************************)
C21_NotWritable ==
    \A t \in Tx : (IsOpen(tx[t]) /\ ~tx[t].writable) =>
        /\ \A h \in Hashes :
            StoreBlock(tx[t], h, BlockBytes(h)) = [err |-> "TxNotWritable", tx |-> tx[t]]
        /\ \A targetSize \in TargetSizes :
            PruneBlocks(tx[t], store, targetSize) =
                [err |-> "TxNotWritable", hashes |-> << >>, tx |-> tx[t]]
        /\ Commit(tx[t], db, store, root, NoFail) =
                [err |-> "TxNotWritable", tx |-> tx[t], db |-> db,
                 store |-> store, root |-> root, steps |-> << >>]

\* The calls a Commit of transaction T makes when none fails: the pending
\* file deletions in order, then for each pending block in order its write
\* and the put of its location, then the put of the write position, then
\* the commit of the cache.
ExpectedCalls(T) ==
    [i \in 1..Len(T.pendingDelFileNums) |->
        << "deleteFile", << T.pendingDelFileNums[i] >> >>]
    \o [i \in 1..(2 * Len(T.pendingBlockData)) |->
        IF i % 2 = 1
        THEN << "writeBlock", << T.pendingBlockData[(i + 1) \div 2].hash >> >>
        ELSE << "Put", << T.pendingBlockData[i \div 2].hash >> >>]
    \o << << "PutWriteLoc", << >> >>, << "commitTx", << >> >> >>

\* The steps but the rollbacks of the store.
Made(steps) == SelectSeq(steps, LAMBDA s : s.call # "handleRollback")

\* The step of a Commit of transaction t that got to write the pending data.
WroteCommit(t) ==
    /\ ret'.op = "Commit" /\ ret'.tx = t
    /\ ret'.err \notin {"TxClosed", "TxNotWritable", "panic"}

(***************************************************************************)
(* C23: the calls of a Commit are made in the order: every pending file    *)
(* deletion, then each pending block in the order of the StoreBlock calls, *)
(* its write followed at once by the put of its location into the index,   *)
(* then the put of the write position, then the commit of the cache, once  *)
(* and last.  No call is made after one that failed, so the cache is       *)
(* committed only if every earlier call succeeded, and after a failed file *)
(* deletion no block is written and the cache is not committed.            *)
(***************************************************************************)
C23_CommitOrder ==
    [][\A t \in Tx : WroteCommit(t) =>
        \A made \in {Made(gh'[t].steps)} : \A exp \in {ExpectedCalls(tx[t])} :
            /\ Len(made) <= Len(exp)
            /\ \A i \in 1..Len(made) :
                /\ << made[i].call, made[i].args >> = exp[i]
                /\ made[i].err # "nil" => i = Len(made)
            /\ (\A i \in 1..Len(made) : made[i].err = "nil") => Len(made) = Len(exp)
            /\ (\E i \in 1..Len(made) :
                    made[i].call = "deleteFile" /\ made[i].err # "nil") =>
                \A j \in 1..Len(made) : made[j].call \notin {"writeBlock", "commitTx"}
            /\ ret'.err = "nil" => \A i \in 1..Len(made) : made[i].err = "nil"
      ]_vars

\* A Commit that deleted a file and wrote two blocks.
C23_Witness ==
    \E t \in Tx :
        /\ gh[t].end = "committed"
        /\ Len(gh[t].steps) = 7
        /\ gh[t].steps[1].call = "deleteFile"
        /\ gh[t].steps[2].call = "writeBlock" /\ gh[t].steps[4].call = "writeBlock"
        /\ gh[t].steps[2].args # gh[t].steps[4].args

(***************************************************************************)
(* C24: a Commit that fails at a call made after the first block write was *)
(* issued (a block write, the put of a location, the put of the write      *)
(* position or the commit of the cache) calls handleRollback with the      *)
(* write position saved before the first write: the write position of the  *)
(* store is afterwards the saved one and the cache root is as before.      *)
(***************************************************************************)
C24_RollbackToAnchor ==
    [][\A t \in Tx :
        (/\ WroteCommit(t)
         /\ \E i \in 1..Len(gh'[t].steps) : gh'[t].steps[i].call = "writeBlock"
         /\ \E i \in 1..Len(gh'[t].steps) : gh'[t].steps[i].err # "nil") =>
            /\ \E i \in 1..Len(gh'[t].steps) :
                    gh'[t].steps[i] =
                        Step("handleRollback", << store.curFileNum, store.curOffset >>, "nil")
            /\ store'.curFileNum = store.curFileNum
            /\ store'.curOffset = store.curOffset
            /\ root' = root
      ]_vars

(***************************************************************************)
(* C25: a Commit is all or nothing for the committed keys and index        *)
(* entries.  A transaction sees, when it begins, the keys and the index    *)
(* entries of exactly the Commits that have returned nil before: nothing   *)
(* of a Commit that returned an error, the failure of the commit of the    *)
(* backend transaction included, and everything of one that returned nil.  *)
(***************************************************************************)
C25_AllOrNothing ==
    \A t \in Tx : gh[t].end # "none" =>
        /\ gh[t].beginView.key = gh[t].expect.key
        /\ gh[t].beginView.has = gh[t].expect.has
        /\ gh[t].beginView.hasBlock = gh[t].expect.hasBlock

\* The write position of store a is before that of store b.
CursorBefore(a, b) ==
    \/ a.curFileNum < b.curFileNum
    \/ a.curFileNum = b.curFileNum /\ a.curOffset < b.curOffset

(***************************************************************************)
(* C26: the write position of the store never moves backward, from one     *)
(* Commit that succeeds to the next nor in between, and after every Commit *)
(* that succeeds the value of the key writeLocKeyName in the metadata      *)
(* bucket of the cache is the write position of the store, that after the  *)
(* last pending block was appended.                                        *)
(***************************************************************************)
C26_WriteCursor ==
    [][/\ ~CursorBefore(store', store)
       /\ (ret'.op = "Commit" /\ ret'.err = "nil") =>
            \A row \in {TreapGet(root', WriteLocKey)} :
                /\ Len(row) = 8
                /\ UnLE32(row, 1) = store'.curFileNum
                /\ UnLE32(row, 5) = store'.curOffset
      ]_vars

\* Two transactions have committed blocks, the second one into a later file,
\* and the cache holds the write position.
C26_Witness ==
    /\ ret.op = "Commit" /\ ret.err = "nil"
    /\ \E t \in Tx \ {ret.tx} :
        /\ gh[t].end = "committed" /\ gh[t].stored # {}
        /\ CursorBefore(gh[ret.tx].beginStore, store)
        /\ CursorBefore(gh[t].beginStore, gh[ret.tx].beginStore)
    /\ store.curFileNum > 0
    /\ TreapGet(root, WriteLocKey) = LE32(store.curFileNum) \o LE32(store.curOffset)

(***************************************************************************)
(* C29: no file number is twice in the pendingDelFileNums of a             *)
(* transaction, whatever PruneBlocks calls it has made, so that no Commit  *)
(* asks the store to delete a file twice.                                  *)
(***************************************************************************)
C29_DelFileNumsDistinct ==
    \A t \in Tx :
        /\ \A i, j \in 1..Len(tx[t].pendingDelFileNums) :
            tx[t].pendingDelFileNums[i] = tx[t].pendingDelFileNums[j] => i = j
        /\ \A i, j \in 1..Len(gh[t].steps) :
            (/\ gh[t].steps[i].call = "deleteFile"
             /\ gh[t].steps[i] = gh[t].steps[j]) => i = j

(***************************************************************************)
(* SpecKV: the key-level calls of one open writable transaction, begun on  *)
(* any snapshot of up to NumKVKeys keys, with its iterators.  hist keeps,  *)
(* per key, the last two calls made on it.                                 *)
(***************************************************************************)
KVKeys == 1..NumKVKeys

\* Every root over the keys: each key absent, or present with a value.
KVRoots == UNION {[S -> Values] : S \in SUBSET {MetaKey(k) : k \in KVKeys}}

LastTwo(q) == IF Len(q) > 2 THEN SubSeq(q, Len(q) - 1, Len(q)) ELSE q

InitKV ==
    /\ \E r \in KVRoots :
        /\ root = r
        /\ tx = [t \in Tx |->
                    IF t = 1
                    THEN initMDBX_txs([NoTx EXCEPT !.phase = "live", !.writable = TRUE,
                                                   !.snapshot = cacheSnapshot(r)])
                    ELSE NoTx]
    /\ db = [InitDb EXCEPT !.writeLock = TRUE, !.closeReaders = 1]
    /\ store = InitStore
    /\ ret = [op |-> "Begin", tx |-> 1, err |-> "nil"]
    /\ gh = [t \in Tx |-> NoGhost]
    /\ ref = EmptyRef
    /\ hist = [k \in KVKeys |-> << >>]

CallPutKey(k, value) ==
    /\ tx' = [tx EXCEPT ![1] = putKey(tx[1], MetaKey(k), value)]
    /\ hist' = [hist EXCEPT ![k] = LastTwo(Append(@, << "put", value >>))]
    /\ UNCHANGED << db, store, root, ret, gh, ref >>

CallDeleteKey(k, notifyIterators) ==
    /\ tx' = [tx EXCEPT ![1] = deleteKey(tx[1], MetaKey(k), notifyIterators)]
    /\ hist' = [hist EXCEPT ![k] = LastTwo(Append(@, << "delete", notifyIterators >>))]
    /\ UNCHANGED << db, store, root, ret, gh, ref >>

\* An iterator is registered once, when it is created.
CallAddActiveIter(iter) ==
    /\ Len(tx[1].activeIters) < NumIters
    /\ \A i \in 1..Len(tx[1].activeIters) : tx[1].activeIters[i] # iter
    /\ tx' = [tx EXCEPT ![1] = addActiveIter(tx[1], iter)]
    /\ UNCHANGED << db, store, root, ret, gh, ref, hist >>

\* An iterator that is released re-seeks no more.
CallRemoveActiveIter(iter) ==
    /\ \E i \in 1..Len(tx[1].activeIters) : tx[1].activeIters[i] = iter
    /\ tx' = [tx EXCEPT ![1] = [removeActiveIter(tx[1], iter) EXCEPT !.reseek = @ \ {iter}]]
    /\ UNCHANGED << db, store, root, ret, gh, ref, hist >>

NextKV ==
    \/ \E k \in KVKeys, value \in Values : CallPutKey(k, value)
    \/ \E k \in KVKeys, notifyIterators \in BOOLEAN : CallDeleteKey(k, notifyIterators)
    \/ \E iter \in Iters : CallAddActiveIter(iter)
    \/ \E iter \in Iters : CallRemoveActiveIter(iter)

SpecKV == InitKV /\ [][NextKV]_vars

(***************************************************************************)
(* The claims on the keys of one transaction.                              *)
(***************************************************************************)
Snapshotted(k) == snapshotHas(tx[1].snapshot, MetaKey(k))

\* C8: after putKey(k, v) and then deleteKey(k), fetchKey(k) returns nil and
\* hasKey(k) false, the snapshot having k or not.
C8_PutThenDelete ==
    \A k \in KVKeys :
        (Len(hist[k]) = 2 /\ hist[k][1][1] = "put" /\ hist[k][2][1] = "delete") =>
            /\ fetchKey(tx[1], MetaKey(k)) = Nil
            /\ ~hasKey(tx[1], MetaKey(k))

\* A key of the snapshot has been put and then deleted.
C8_Witness ==
    \E k \in KVKeys :
        /\ Snapshotted(k)
        /\ Len(hist[k]) = 2 /\ hist[k][1][1] = "put" /\ hist[k][2][1] = "delete"

\* C9: read-your-writes.  After putKey(k, v), whatever came before it, a
\* deleteKey(k) included, fetchKey(k) returns v, the empty value included,
\* and hasKey(k) true, whatever the snapshot has for k.
C9_ReadYourWrites ==
    \A k \in KVKeys :
        (hist[k] # << >> /\ hist[k][Len(hist[k])][1] = "put") =>
            /\ fetchKey(tx[1], MetaKey(k)) = hist[k][Len(hist[k])][2]
            /\ hasKey(tx[1], MetaKey(k))

\* A key the snapshot has with another value has been deleted and then put
\* with the empty value.
C9_Witness ==
    \E k \in KVKeys :
        /\ Snapshotted(k) /\ snapshotGet(tx[1].snapshot, MetaKey(k)) # << >>
        /\ hist[k] = << << "delete", TRUE >>, << "put", << >> >> >>

\* C10: no key is in pendingKeys and in pendingRemove at once, after any
\* sequence of putKey and deleteKey, with or without notification.
C10_PendingDisjoint ==
    DOMAIN tx[1].pendingKeys \cap DOMAIN tx[1].pendingRemove = {}

\* One key is pending after a delete and a put, another is removed after a
\* put and a delete that did not notify.
C10_Witness ==
    \E k, l \in KVKeys :
        /\ hist[k] = << << "delete", TRUE >>, << "put", <<7>> >> >>
        /\ hist[l] = << << "put", <<7>> >>, << "delete", FALSE >> >>
        /\ TreapHas(tx[1].pendingKeys, MetaKey(k))
        /\ TreapHas(tx[1].pendingRemove, MetaKey(l))


\* The iterators in the registry of a transaction.
Registered(T) == {T.activeIters[i] : i \in 1..Len(T.activeIters)}

(***************************************************************************)
(* C28: putKey, and deleteKey with the notify flag, force every iterator   *)
(* that is registered at that moment (added by addActiveIter and not yet   *)
(* removed by removeActiveIter) to re-seek, and no other; deleteKey        *)
(* without the flag forces none.  removeActiveIter(it) takes it out of the *)
(* registry, where every other iterator stays, and it is not forced to     *)
(* re-seek again.                                                          *)
(***************************************************************************)
C28_IterNotify ==
    [][/\ \A k \in KVKeys, value \in Values :
            CallPutKey(k, value) =>
                tx'[1].reseek = tx[1].reseek \cup Registered(tx[1])
       /\ \A k \in KVKeys :
            CallDeleteKey(k, TRUE) =>
                tx'[1].reseek = tx[1].reseek \cup Registered(tx[1])
       /\ \A k \in KVKeys :
            CallDeleteKey(k, FALSE) => tx'[1].reseek = tx[1].reseek
       /\ \A iter \in Iters :
            CallRemoveActiveIter(iter) =>
                /\ Registered(tx'[1]) = Registered(tx[1]) \ {iter}
                /\ \A i \in 1..Len(tx'[1].activeIters) : tx'[1].activeIters[i] # iter
       /\ tx'[1].reseek \ tx[1].reseek \subseteq Registered(tx[1])
      ]_vars

\* Iterator 2 alone is registered and has been forced to re-seek, a key
\* having been deleted with the flag.
C28_Witness ==
    /\ tx[1].activeIters = << 2 >>
    /\ tx[1].reseek = {2}
    /\ \E k \in KVKeys : hist[k] # << >> /\ hist[k][Len(hist[k])] = << "delete", TRUE >>


(***************************************************************************)
(* SpecRegion: the region reads of one writable transaction begun on the   *)
(* empty or on the loaded database, between its StoreBlock calls.  hist    *)
(* keeps the last read: the transaction and the store it was made on, the  *)
(* regions asked for and the result.                                       *)
(***************************************************************************)
\* Regions asked for in one FetchBlockRegions call.
MaxRegions == 3

\* Offsets and lengths of the single reads: inside and past the blocks, and
\* 0xFFFFFFF0 and 0xFFFFFFFF, whose sums with a length wrap.
RegionOffsets == {U32(0), U32(1), U32(2), << Half - 1, Half - 16 >>, << Half - 1, Half - 1 >>}
RegionLens == {U32(0), U32(1), U32(2), U32(3), U32(32)}
Regions == [hash : Hashes, offset : RegionOffsets, len : RegionLens]

\* The regions of the bulk reads, and the lists of them.
ListRegions == [hash : Hashes, offset : {U32(0), U32(1)}, len : {U32(1), U32(2)}]
RegionLists == UNION {[1..n -> ListRegions] : n \in 0..MaxRegions}

CallFetchBlockRegion(t, region) ==
    /\ tx[t].phase = "live"
    /\ \E r \in {FetchBlockRegion(tx[t], store, region)} :
           /\ hist' = [T |-> tx[t], st |-> store, regions |-> << region >>, res |-> r]
           /\ Returned("FetchBlockRegion", t, r.err)
    /\ UNCHANGED << tx, db, store, root, gh, ref >>

CallFetchBlockRegions(t, regions) ==
    /\ tx[t].phase = "live"
    /\ \E r \in {FetchBlockRegions(tx[t], store, regions)} :
           /\ hist' = [T |-> tx[t], st |-> store, regions |-> regions, res |-> r]
           /\ Returned("FetchBlockRegions", t, r.err)
    /\ UNCHANGED << tx, db, store, root, gh, ref >>

\* A read changes nothing of the transaction: a behaviour is followed up to
\* its first read.
NoRead == ret.op \notin {"FetchBlockRegion", "FetchBlockRegions"}

NextRegion ==
    \/ \E writable \in BOOLEAN : NoRead /\ BeginCall(1, writable, FALSE)
    \/ NoRead /\ BeginReturn(1)
    \/ \E hash \in Hashes :
            NoRead /\ OpenWritable(1) /\ CallStoreBlock(1, hash, BlockBytes(hash))
    \/ \E region \in Regions :
            NoRead /\ IsOpen(tx[1]) /\ CallFetchBlockRegion(1, region)
    \/ \E regions \in RegionLists :
            NoRead /\ IsOpen(tx[1]) /\ CallFetchBlockRegions(1, regions)

SpecRegion == Init /\ [][NextRegion]_vars

\* The region fits the block of n bytes: offset + len, not wrapped, is at
\* most n.
Fits(region, n) ==
    /\ region.offset[1] = 0 /\ region.len[1] = 0
    /\ region.offset[2] + region.len[2] <= n

(***************************************************************************)
(* C12: for a block of n bytes, pending or committed, and 32-bit unsigned  *)
(* offset o and length l, FetchBlockRegion returns the bytes o .. o+l-1 of *)
(* the block when o + l, not wrapped, is at most n; otherwise, also when   *)
(* o + l wraps at 2^32, it returns BlockRegionInvalid without a read of    *)
(* the block files.  The pending and the committed block follow one rule.  *)
(***************************************************************************)
C12_RegionBounds ==
    ret.op = "FetchBlockRegion" =>
        \A b \in {FetchBlock(hist.T, hist.st, hist.regions[1].hash)} :
            b.err = "nil" =>
                IF Fits(hist.regions[1], Len(b.bytes))
                THEN /\ hist.res.err = "nil"
                     /\ hist.res.bytes =
                            SubSeq(b.bytes, hist.regions[1].offset[2] + 1,
                                   hist.regions[1].offset[2] + hist.regions[1].len[2])
                ELSE /\ hist.res.err = "BlockRegionInvalid"
                     /\ hist.res.reads = << >>

\* A region of a committed block whose end wraps to a place inside the
\* block has been refused.
C12_Witness ==
    /\ ret.op = "FetchBlockRegion" /\ ret.err = "BlockRegionInvalid"
    /\ hist.regions[1].hash \notin DOMAIN hist.T.pendingBlocks
    /\ FetchBlock(hist.T, hist.st, hist.regions[1].hash).err = "nil"
    /\ hist.regions[1].offset = << Half - 1, Half - 1 >>
    /\ hist.regions[1].len = U32(2)

(***************************************************************************)
(* C13: FetchBlockRegions keeps the positions and agrees with the reads    *)
(* made one by one: for every list of regions, of pending and committed    *)
(* blocks in any order and with repetitions, it fails exactly when         *)
(* FetchBlockRegion fails for one of them at least, and when it succeeds   *)
(* its i-th result is the result of FetchBlockRegion for the i-th region.  *)
(***************************************************************************)
C13_RegionsElementwise ==
    ret.op = "FetchBlockRegions" =>
        /\ hist.res.err = "nil" <=>
              \A i \in 1..Len(hist.regions) :
                  FetchBlockRegion(hist.T, hist.st, hist.regions[i]).err = "nil"
        /\ hist.res.err = "nil" =>
              \A i \in 1..Len(hist.regions) :
                  hist.res.blocks[i] = FetchBlockRegion(hist.T, hist.st, hist.regions[i]).bytes

\* A list of three regions has been read with success: a pending block
\* among them, and the block files read in another order than the list's.
C13_Witness ==
    /\ ret.op = "FetchBlockRegions" /\ ret.err = "nil"
    /\ Len(hist.regions) = 3
    /\ \E i \in 1..3 : hist.regions[i].hash \in DOMAIN hist.T.pendingBlocks
    /\ Len(hist.res.reads) = 2
    /\ \E i, j \in 1..3 :
          /\ i < j
          /\ hist.regions[i].hash # hist.regions[j].hash
          /\ FetchBlockRegion(hist.T, hist.st, hist.regions[j]).reads = << hist.res.reads[1] >>
          /\ FetchBlockRegion(hist.T, hist.st, hist.regions[i]).reads = << hist.res.reads[2] >>


\* The region's block is not pending in the transaction of the last read.
OnDisk(region) == region.hash \notin DOMAIN hist.T.pendingBlocks

\* The region fails its lookup or its bounds check: its read alone fails
\* before it reads a block file.
FailsResolve(region) ==
    /\ FetchBlockRegion(hist.T, hist.st, region).err # "nil"
    /\ FetchBlockRegion(hist.T, hist.st, region).reads = << >>

MaxFirst == 2
\* The most block files after the first one.
MaxFileCount == 4

PruneStore(first, last, lastFileSize) ==
    [files |-> [n \in first..last |->
                    [i \in 1..(IF n < last THEN MaxBlockFileSize ELSE lastFileSize) |-> 6]],
     curFileNum |-> last, curOffset |-> lastFileSize]

PruneTargets == 0 .. MaxBlockFileSize * (MaxFileCount + 1)

InitPrune ==
    /\ \/ store = InitStore
       \/ \E first \in 0..MaxFirst, count \in 0..MaxFileCount,
             lastFileSize \in 0..MaxBlockFileSize :
                store = PruneStore(first, first + count, lastFileSize)
    /\ root = InitRoot
    /\ tx = [t \in Tx |-> IF t = 1 THEN FirstTx ELSE NoTx]
    /\ db = [InitDb EXCEPT !.writeLock = TRUE, !.closeReaders = 1]
    /\ ret = [op |-> "Begin", tx |-> 1, err |-> "nil"]
    /\ gh = [t \in Tx |-> NoGhost]
    /\ ref = EmptyRef
    /\ hist = << >>

CallPruneFiles(t, targetSize) ==
    /\ tx[t].phase = "live"
    /\ Len(tx[t].pendingDelFileNums) < MaxPendingDel
    /\ \E r \in {PruneBlocks(tx[t], store, targetSize)} :
           /\ tx' = [tx EXCEPT ![t] = r.tx]
           /\ hist' = [T |-> tx[t], st |-> store, targetSize |-> targetSize, res |-> r]
           /\ Returned("PruneBlocks", t, r.err)
    /\ UNCHANGED << db, store, root, gh, ref >>

\* BeenPruned called on the store as it is; hist keeps the call, with no
\* target size.
CallBeenPruned(t) ==
    /\ tx[t].phase = "live"
    /\ \E r \in {BeenPruned(tx[t], store)} :
           /\ hist' = [T |-> tx[t], st |-> store, targetSize |-> -1, res |-> r]
           /\ Returned("BeenPruned", t, r.err)
    /\ UNCHANGED << tx, db, store, root, gh, ref >>

NextPrune ==
    \/ \E targetSize \in PruneTargets : CallPruneFiles(1, targetSize)
    \/ CallBeenPruned(1)

SpecPrune == InitPrune /\ [][NextPrune]_vars

\* The rule of the selection: the files first .. k, for the smallest k below
\* last after whose removal the remaining size is within the target, or
\* last - 1 without one; none when the size is within the target already.
RefPruneFiles(first, last, lastFileSize, targetSize) ==
    IF first = last \/ lastFileSize + MaxBlockFileSize * (last - first) <= targetSize
    THEN << >>
    ELSE [i \in 1 .. (1 - first +
                (IF \E k \in first..(last - 1) :
                        lastFileSize + MaxBlockFileSize * (last - 1 - k) <= targetSize
                 THEN Min({k \in first..(last - 1) :
                        lastFileSize + MaxBlockFileSize * (last - 1 - k) <= targetSize})
                 ELSE last - 1)) |-> first + i - 1]

(***************************************************************************)
(* C15: the files PruneBlocks schedules are those of the rule, for every   *)
(* first, last, size of the last file and target size: an error and no     *)
(* file for a target below the size of a block file; no file when there is *)
(* one file only or the total size, the last file's plus a full size for   *)
(* every other file, is within the target; else the files first .. k in    *)
(* order, k the smallest number below last after whose removal the rest is *)
(* within the target, or last - 1.                                         *)
(***************************************************************************)
C15_PruneSelection ==
    ret.op = "PruneBlocks" =>
        \A scan \in {scanBlockFiles(hist.st)} :
            IF hist.targetSize < MaxBlockFileSize
            THEN /\ hist.res.err # "nil"
                 /\ hist.res.tx.pendingDelFileNums = hist.T.pendingDelFileNums
            ELSE /\ hist.res.err = "nil"
                 /\ hist.res.tx.pendingDelFileNums =
                        hist.T.pendingDelFileNums \o
                        RefPruneFiles(scan.first, scan.last, scan.lastFileSize,
                                      hist.targetSize)

\* Files 0 to 4, all full, pruned to twice the size of a file: 0, 1 and 2
\* are scheduled.
C15_Witness ==
    /\ ret.op = "PruneBlocks" /\ ret.err = "nil"
    /\ scanBlockFiles(hist.st) =
            [first |-> 0, last |-> 4, lastFileSize |-> MaxBlockFileSize]
    /\ hist.targetSize = 2 * MaxBlockFileSize
    /\ hist.T.pendingDelFileNums = << >>
    /\ tx[1].pendingDelFileNums = << 0, 1, 2 >>

NextManaged ==
    \/ \E t \in DataTx, writable \in BOOLEAN, managed \in BOOLEAN :
            BeginCall(t, writable, managed)
    \/ \E t \in DataTx : BeginReturn(t)
    \/ \E t \in DataTx : ManagedReturn(t)
    \/ \E t \in DataTx, hash \in Hashes :
            OpenWritable(t) /\ CallStoreBlock(t, hash, BlockBytes(hash))
    \/ \E t \in DataTx, k \in UserKeys, value \in MetaValues :
            OpenWritable(t) /\ CallPut(t, k, value)
    \/ \E t \in DataTx, targetSize \in TargetSizes :
            OpenWritable(t) /\ CallPruneBlocks(t, targetSize)
    \/ \E t \in DataTx : \E fail \in FailChoices(tx[t]) : IsOpen(tx[t]) /\ CallCommit(t, fail)
    \/ \E t \in DataTx : IsOpen(tx[t]) /\ CallRollback(t)

SpecManaged == Init /\ [][NextManaged]_vars

(***************************************************************************)
(* C18: Commit and Rollback of an open managed transaction panic, and the  *)
(* transaction is closed before the panic: the closed flag is set, the     *)
(* pending sets are dropped, the snapshot is released, the read hold of    *)
(* the close barrier is released, the writer lock too when the transaction *)
(* is writable; nothing is written to the block files or to the cache.     *)
(***************************************************************************)
C18_ManagedPanics ==
    [][\A t \in Tx :
          (/\ IsOpen(tx[t]) /\ tx[t].managed
           /\ ret'.tx = t /\ ret'.op \in {"Commit", "Rollback"}) =>
              /\ ret'.err = "panic"
              /\ tx'[t].closed
              /\ tx'[t].pendingBlocks = << >> /\ tx'[t].pendingBlockData = << >>
              /\ tx'[t].pendingDelFileNums = << >>
              /\ tx'[t].pendingKeys = EmptyTreap /\ tx'[t].pendingRemove = EmptyTreap
              /\ tx'[t].snapshot = NoSnapshot
              /\ db'.closeReaders = db.closeReaders - 1
              /\ db'.writeLock = (db.writeLock /\ ~tx[t].writable)
              /\ tx[t].writable => db.writeLock
              /\ store' = store /\ root' = root]_vars

\* Commit has panicked on a managed writable transaction that had a block
\* and a key pending and a block file scheduled for deletion.
C18_Witness ==
    /\ ret.op = "Commit" /\ ret.err = "panic"
    /\ tx[ret.tx].writable /\ tx[ret.tx].closed /\ tx[ret.tx].managed
    /\ gh[ret.tx].stored # {} /\ gh[ret.tx].scheduled
    /\ \E k \in UserKeys : gh[ret.tx].kv[k] # << "none" >>
    /\ ~db.writeLock


(***************************************************************************)
(* SpecMisuse: the locks of SpecLock when the owner of a managed           *)
(* transaction goes on after a panic: the function given to View or Update *)
(* recovers the panic of Commit or Rollback and calls the transaction      *)
(* again.  Unlocking a lock that nothing holds is a fatal error of the     *)
(* runtime, which ends the process.                                        *)
(***************************************************************************)
\* close of T would unlock a lock that nothing holds.
Unheld(T, d) == d.closeReaders = 0 \/ (T.writable /\ ~d.writeLock)

\* Commit and Rollback of T reach close.
ReachesClose(T) == T.managed \/ ~T.closed

Running == ret.err # "fatal"

Recover(t) ==
    /\ tx[t].phase = "panicked"
    /\ tx' = [tx EXCEPT ![t].phase = "live"]
    /\ Returned("recover", t, "nil")
    /\ UNCHANGED << db, store, root, gh, ref, hist >>

FatalClose(t, op) ==
    /\ tx[t].phase = "live"
    /\ ReachesClose(tx[t]) /\ Unheld(tx[t], db)
    /\ Returned(op, t, "fatal")
    /\ UNCHANGED << tx, db, store, root, gh, ref, hist >>

NextMisuse ==
    \/ \E t \in DataTx, writable \in BOOLEAN, managed \in BOOLEAN :
            Running /\ BeginCall(t, writable, managed)
    \/ \E t \in DataTx : Running /\ BeginReturn(t)
    \/ \E t \in DataTx : Running /\ ManagedReturn(t)
    \/ \E t \in DataTx : \E fail \in FailChoices(tx[t]) :
            /\ Running /\ ~(ReachesClose(tx[t]) /\ Unheld(tx[t], db))
            /\ CallCommit(t, fail)
    \/ \E t \in DataTx :
            /\ Running /\ ~(ReachesClose(tx[t]) /\ Unheld(tx[t], db))
            /\ CallRollback(t)
    \/ \E t \in DataTx : Running /\ Recover(t)
    \/ \E t \in DataTx, op \in {"Commit", "Rollback"} : Running /\ FatalClose(t, op)

SpecMisuse == InitEmpty /\ [][NextMisuse]_vars

(***************************************************************************)
(* C19: closing is idempotent.  For every transaction and every sequence   *)
(* of Commit, Rollback and close calls on it, the read hold of the close   *)
(* barrier, the snapshot and the writer lock are released once each: the   *)
(* holds of the barrier are those of the transactions not yet closed, the  *)
(* writer lock is held exactly while a writable transaction is open, and   *)
(* no close unlocks a lock that nothing holds.                             *)
(***************************************************************************)
C19_ReleasedOnce ==
    /\ Running
    /\ db.closeReaders = Cardinality(BarrierHolders)
    /\ db.writeLock <=> OpenWriters # {}

=============================================================================
